---- MODULE Spec2Model ----
(***************************************************************************)
(* A model of PyCPython's declaration-to-Python compiler:                  *)
(*   - the struct/union layout compiler of compile_to_py.py (CodeGen),     *)
(*   - the scope and symbol manager, the function cache and the helper     *)
(*     primitives of cparser/interpreter.py.                               *)
(* Each part has its own specification over its own variables.             *)
(***************************************************************************)
EXTENDS Integers, Sequences, FiniteSets, TLC

(***************************************************************************)
(* PART 1.  The layout compiler (compile_to_py.py, class CodeGen).         *)
(***************************************************************************)

\* ---- bounds of the declaration graphs drawn by LayoutInit ----
\* Largest number of member variables in the body of one aggregate.
MaxFields == 2

\* The declaration nodes: aggregate 1 always has a body, aggregate 2 has a
\* body or is a forward declaration without one ("struct B;").
AllDecls == {1, 2}

\* ---- names: a C identifier is a sequence of characters ----
RECURSIVE StrOf(_)
StrOf(n) == IF n = <<>> THEN "" ELSE Head(n) \o StrOf(Tail(n))

\* the names the two nodes carry in the input: two different plain names, two
\* names that differ only in the prefix fix_name rewrites, or (node 2 a
\* forward declaration of node 1) the same name
PlainNames == (1 :> <<"A">>) @@ (2 :> <<"B">>)
PrefixNames == (1 :> <<"_", "_", "S">>) @@ (2 :> <<"_", "M", "_", "S">>)
SameNames == (1 :> <<"A">>) @@ (2 :> <<"A">>)

\* ---- C type nodes: a sequence of constructors, outermost first ----
TInt == << [k |-> "int", d |-> 0] >>
TAgg(d) == << [k |-> "agg", d |-> d] >>
TPtr(t) == << [k |-> "ptr", d |-> 0] >> \o t
\* a type node of a class _get_py_type does not know
TBad == << [k |-> "other", d |-> 0] >>
\* CArrayType: with an arrayLen of the constant value n, without arrayLen,
\* and with an arrayLen that has no constant value
TArray(n, t) == << [k |-> "array", d |-> n] >> \o t
TArrayNoLen(t) == << [k |-> "array_nolen", d |-> 0] >> \o t
TArrayNoConst(t) == << [k |-> "array_noconst", d |-> 0] >> \o t
ArrayKinds == {"array", "array_nolen", "array_noconst"}

FieldTypes == {TInt} \cup { TAgg(d) : d \in AllDecls } \cup { TPtr(TAgg(d)) : d \in AllDecls }

\* the i-th member variable of a body is named f<i>
FieldName(i) == "f" \o ToString(i)

Bodies == UNION { [1..n -> FieldTypes] : n \in 1..MaxFields }

VARIABLES
  decl,         \* the declaration graph: node -> [kind, hasBody, body]
  gdecl,        \* the typedefs, functions and variables: id -> [kind, name, type, ok]
  contentlist,  \* state.contentlist: the nodes and global declarations in source order
  pc,           \* where main() is
  idx,          \* index of the loop over the contentlist / delayed_structs
  cg            \* the CodeGen object (and the attributes it sets on the nodes)

layoutVars == <<decl, gdecl, contentlist, pc, idx, cg>>

VARIABLES
  stateNames,    \* the names in the parser state's vars / typedefs / funcs
  identifiers,   \* GlobalScope.identifiers: name -> what it is bound to
  gnames,        \* GlobalScope.names: the declarations findIdentifier has named
  vars,          \* FuncEnv.vars: name -> varDecl
  varNames,      \* FuncEnv.varNames: varDecl -> name
  scopeStack,    \* FuncEnv.scopeStack: the varNames set of each block scope
  body,          \* FuncEnv.astNode.body: the statements emitted so far
  nextDecl,      \* the next local declaration (declarations are distinct objects)
  nExterns       \* calls of registerExternVar so far

scopeVars == <<stateNames, identifiers, gnames, vars, varNames, scopeStack, body, nextDecl, nExterns>>

VARIABLES
  funcs,         \* the parser state's funcs: name -> the function's declaration
  func_cache,    \* Interpreter._func_cache: name -> callable
  gdict,         \* the __dict__ of Interpreter.globalsWrapper
  ntrans,        \* name -> how often _translateFuncToPy ran, and how often to the end
  nextFunc,      \* the next callable (callables are distinct objects)
  lastRun        \* what the last operation of the interpreter did

funcVars == <<funcs, func_cache, gdict, ntrans, nextFunc, lastRun>>

VARIABLES
  cells,         \* the ctypes objects made so far: type and stored value
  lastOp,        \* what the last call of a helper did
  snap           \* result cell of a postfix operator -> the value it was made with

helperVars == <<cells, lastOp, snap>>

allVars == <<layoutVars, scopeVars, funcVars, helperVars>>

\* ---- the exceptions of the layout compiler; "" is normal return ----
NoExc == ""
WriteStructException == {"NoBody", "RecursiveConstruction", "IncompleteStructCannotCompleteHere"}

\* ---- the values of the node attribute _comppy_constructing ----
CUnset == [tag |-> "unset", l |-> <<>>]
CBool(b) == [tag |-> IF b THEN "true" ELSE "false", l |-> <<>>]
CList(l) == [tag |-> "list", l |-> l]
\* Python truth value of the attribute (getattr(content, "_comppy_constructing", None))
Truthy(c) == c.tag = "true" \/ (c.tag = "list" /\ c.l # <<>>)

\* cparser.isExternDecl / State.getResolvedDecl (interface of the parser, spec section 6)
isExternDecl(d) == ~decl[d].hasBody
getResolvedDecl(s, d) ==
  IF decl[d].hasBody THEN d
  ELSE LET full == { e \in DOMAIN decl : decl[e].hasBody /\ decl[e].kind = decl[d].kind /\ s.name[e] = s.name[d] }
       IN IF full = {} THEN d ELSE CHOOSE e \in full : TRUE

base_type(d) == decl[d].kind
struct_dict(s, d) == IF base_type(d) = "struct" THEN s.structs ELSE s.unions

SetStructDict(s, d, nm) ==
  IF base_type(d) = "struct"
  THEN [s EXCEPT !.structs = (nm :> d) @@ @]
  ELSE [s EXCEPT !.unions = (nm :> d) @@ @]

\* cparser.isPointerType(t, alsoFuncPtr=True, alsoArray=False); <<>> models None
isPointerType(t) == t # <<>> /\ t[1].k = "ptr"

Raise(s, e) == [s EXCEPT !.exc = e]
Write(s, ev) == [s EXCEPT !.f = Append(@, ev)]

\* one thing written to the output file
Emit(ev, d, nm, fields) == [ev |-> ev, kind |-> base_type(d), name |-> nm, node |-> d, fields |-> fields]

RECURSIVE get_py_type(_, _)
RECURSIVE FieldLoop(_, _, _, _)
RECURSIVE write_struct(_, _)
RECURSIVE write_delayed_struct(_, _)

\* fields.append("(%r, %s)" % (str(c.name), t)) for the i-th member variable
add_field_front(fields, i, t) == <<<<FieldName(i), t>>>> \o fields
add_field(fields, i, t) == Append(fields, <<FieldName(i), t>>)

\* The loop over content.body.contentlist shared by _write_struct and
\* _write_delayed_struct: fields.append("(%r, %s)" % (c.name, get_py_type(c.type))).
\* Returns [s, v]: the CodeGen state and the list of fields.
\* (r is what get_py_type returned for the i-th member)
FieldLoopStep(r, d, i, fields) ==
  IF r.s.exc # NoExc THEN [s |-> r.s, v |-> fields]
  ELSE FieldLoop(r.s, d, i + 1, add_field(fields, i, r.v))

FieldLoop(s, d, i, fields) ==
  IF i > Len(decl[d].body) THEN [s |-> s, v |-> fields]
  ELSE FieldLoopStep(get_py_type(s, decl[d].body[i]), d, i, fields)

\* CodeGen._write_struct, from the finally clause on (r is what the loop
\* over the members returned)
write_struct_end(r, d) ==
  LET s2 == [r.s EXCEPT !.comppy_constructing[d] = CBool(FALSE)]   \* finally
  IN IF s2.exc # NoExc THEN s2
     ELSE LET s3 == Write(s2, Emit("class", d, s2.name[d], r.v))
              s4 == [s3 EXCEPT !.comppy_written = @ \cup {d}]
          IN IF s2.name[d] \in DOMAIN struct_dict(s4, d)
             THEN Raise(s4, "AssertionError")
             ELSE SetStructDict(s4, d, s2.name[d])

\* CodeGen._write_struct
write_struct(s, d) ==
  IF ~decl[d].hasBody THEN Raise(s, "NoBody")
  ELSE IF Truthy(s.comppy_constructing[d]) THEN Raise(s, "RecursiveConstruction")
  ELSE write_struct_end(FieldLoop([s EXCEPT !.comppy_constructing[d] = CBool(TRUE)], d, 1, <<>>), d)

\* CodeGen._write_struct_dummy_extern
write_struct_dummy_extern(s, d) ==
  LET s1 == Write(s, Emit("dummy", d, s.name[d], <<>>))
  IN IF s.name[d] \in DOMAIN struct_dict(s1, d)
     THEN Raise(s1, "AssertionError")
     ELSE SetStructDict(s1, d, s.name[d])

\* CodeGen._try_write_struct, after the call of _write_struct (s1 is the
\* state it left)
try_write_struct_except(s1, d) ==
  IF s1.exc \notin WriteStructException THEN s1
  ELSE LET s2 == Raise(s1, NoExc)      \* except self.WriteStructException
       IN IF \E j \in 1..Len(s2.delayed_structs) : s2.delayed_structs[j] = d
          THEN s2
          ELSE IF s2.name[d] \in DOMAIN struct_dict(s2, d)
          THEN Raise(s2, "AssertionError")
          ELSE [s2 EXCEPT !.delayed_structs = Append(@, d),
                          !.delayed_write = @ \cup {d}]

\* CodeGen._try_write_struct
try_write_struct(s, d) ==
  IF ~decl[d].hasBody THEN Raise(s, "AssertionError")
  ELSE IF d \in s.comppy_written
  THEN IF s.name[d] \in DOMAIN struct_dict(s, d) /\ struct_dict(s, d)[s.name[d]] = d
       THEN s ELSE Raise(s, "AssertionError")
  ELSE try_write_struct_except(write_struct(s, d), d)

\* CodeGen._get_anonymous_name: "_anonymous_%i" of the incremented counter
get_anonymous_name(s) == <<"_anonymous_", ToString(s.anonymous_name_counter + 1)>>

\* CodeGen._check_local_struct_type, the head:
\* if not t.name: t.name = "_local_" + self._get_anonymous_name()
name_local_struct_same_counter(s, t) ==
  IF s.name[t] # <<>> THEN s ELSE [s EXCEPT !.name[t] = <<"_local_", "_anonymous_", "1">>]
name_local_struct(s, t) ==
  IF s.name[t] # <<>> THEN s
  ELSE [s EXCEPT !.name[t] = <<"_local_">> \o get_anonymous_name(s),
                 !.anonymous_name_counter = @ + 1]

\* CodeGen._check_local_struct_type, after the naming
check_local_struct_type_named(s, t) ==
  LET t2 == getResolvedDecl(s, t)
      tt == IF ~decl[t].hasBody THEN t2 ELSE t
  IN IF s.name[tt] \in DOMAIN struct_dict(s, tt) THEN s
     ELSE IF (IF base_type(tt) = "struct" THEN s.py_in_structs ELSE s.py_in_unions)
     THEN write_struct(s, tt)
     ELSE IF s.py_in_delayed
     THEN write_delayed_struct(s, tt)
     ELSE Raise(s, "IncompleteStructCannotCompleteHere")

\* CodeGen._check_local_struct_type
check_local_struct_type(s, t) == check_local_struct_type_named(name_local_struct(s, t), t)

\* the parent type _write_delayed_struct reads off the type stack:
\* drop the top (the current content), then take the next non-typedef type
RECURSIVE ParentOf(_)
ParentOf(stack) ==
  IF stack = <<>> THEN <<>>
  ELSE LET top == stack[Len(stack)]
           rest == SubSeq(stack, 1, Len(stack) - 1)
       IN IF top[1].k # "typedef" \/ rest = <<>> THEN top ELSE ParentOf(rest)

parent_type(stack) ==
  IF stack = <<>> THEN <<>> ELSE ParentOf(SubSeq(stack, 1, Len(stack) - 1))

\* _write_delayed_struct, the header: the fields-less class is written once
write_header_never(s, d) == s
write_header(s, d) ==
  IF d \in s.wrote_header THEN s
  ELSE [Write(s, Emit("stub", d, s.name[d], <<>>)) EXCEPT !.wrote_header = @ \cup {d}]

\* _write_delayed_struct, entered again while the aggregate is under
\* construction: "If the parent referred to us as a pointer, it's fine, we can
\* use our incomplete type and don't need to construct it now."
use_incomplete_type_always(parent) == TRUE
use_incomplete_type_never(parent) == FALSE
use_incomplete_type(parent) == parent # <<>> /\ isPointerType(parent)

\* CodeGen._write_delayed_struct, from the finally clause on (r is what the
\* loop over the members returned)
write_delayed_struct_end(r, d) ==
  LET l  == r.s.comppy_constructing[d].l
      s3 == [r.s EXCEPT !.comppy_constructing[d] = CList(SubSeq(l, 1, Len(l) - 1))]
  IN IF s3.exc # NoExc THEN s3
     ELSE IF s3.name[d] \in DOMAIN struct_dict(s3, d) THEN s3
     ELSE Write(SetStructDict(s3, d, s3.name[d]), Emit("fields", d, s3.name[d], r.v))

\* CodeGen._write_delayed_struct
write_delayed_struct(s, d) ==
  IF s.name[d] \in DOMAIN struct_dict(s, d) THEN Raise(s, "AssertionError")
  ELSE
    LET s1 == write_header(s, d)
        parent == parent_type(s1.get_py_type_stack)
        cur == s1.comppy_constructing[d]
    IN IF ~decl[d].hasBody THEN s1
       ELSE IF Truthy(cur) /\ use_incomplete_type(parent) THEN s1
       ELSE
         LET s2 == IF Truthy(cur)
                   THEN [s1 EXCEPT !.comppy_constructing[d] = CList(Append(cur.l, parent))]
                   ELSE [s1 EXCEPT !.comppy_constructing[d] = CList(<<parent>>)]
         IN IF Truthy(cur) /\ Len(s2.comppy_constructing[d].l) > 2
            THEN Raise(s2, "RecursiveConstruction")
            ELSE write_delayed_struct_end(FieldLoop(s2, d, 1, <<>>), d)

\* CodeGen._get_py_type, a struct or union: "%ss.%s" % (base_type, t.name)
\* (s1 is the state _check_local_struct_type left)
struct_py_type(s1, d) == [s |-> s1, v |-> base_type(d) \o "s." \o StrOf(s1.name[d])]

\* CodeGen._get_py_type, a pointer: "ctypes.POINTER(%s)" % t
\* (r is what get_py_type returned for the pointee)
pointer_py_type(r) == [s |-> r.s, v |-> "ctypes.POINTER(" \o r.v \o ")"]

\* cparser.getConstValue(state, t.arrayLen) (interface of the parser); -1
\* models None
getConstValue(a) == IF a.k = "array" THEN a.d ELSE -1

\* CodeGen._get_py_type, an array (r is what get_py_type returned for
\* t.arrayOf, a the array node)
array_py_type_pointer(r, a) == [s |-> r.s, v |-> "ctypes.POINTER(" \o r.v \o ")"]
array_py_type(r, a) ==
  IF a.k = "array_nolen" THEN [s |-> r.s, v |-> "ctypes.POINTER(" \o r.v \o ")"]
  ELSE [s |-> r.s,
        v |-> r.v \o " * " \o ToString(IF getConstValue(a) = -1 THEN 1 ELSE getConstValue(a))]

\* CodeGen._get_py_type
get_py_type_(s, t) ==
  CASE t[1].k = "agg" -> struct_py_type(check_local_struct_type(s, t[1].d), t[1].d)
    [] t[1].k = "int" -> [s |-> s, v |-> "ctypes_wrapped.c_int"]
    [] t[1].k = "ptr" -> pointer_py_type(get_py_type(s, Tail(t)))
    [] t[1].k \in ArrayKinds -> array_py_type(get_py_type(s, Tail(t)), t[1])
    [] OTHER -> [s |-> Raise(s, "Exception"), v |-> ""]

\* CodeGen.get_py_type, the finally clause: self.get_py_type_stack.pop()
get_py_type_no_pop(r) == r
get_py_type_pop(r) ==
  [s |-> [r.s EXCEPT !.get_py_type_stack = SubSeq(@, 1, Len(@) - 1)], v |-> r.v]

\* CodeGen.get_py_type: push, map, pop
get_py_type(s, t) ==
  get_py_type_pop(get_py_type_([s EXCEPT !.get_py_type_stack = Append(@, t)], t))

\* fix_name: a name that starts with "__" becomes "_M_" + name[2:]
fix_name(n) ==
  IF Len(n) >= 2 /\ SubSeq(n, 1, 2) = <<"_", "_">>
  THEN <<"_", "M", "_">> \o SubSeq(n, 3, Len(n))
  ELSE n

InContentlist(d) == \E i \in 1..Len(contentlist) : contentlist[i] = d

Section(what) == [ev |-> "section", kind |-> what, name |-> <<>>, node |-> 0, fields |-> <<>>]

\* CodeGen.__init__
NewCodeGen(names) ==
  [ name |-> names,
    structs |-> <<>>, unions |-> <<>>, delayed_structs |-> <<>>,
    py_in_structs |-> FALSE, py_in_unions |-> FALSE, py_in_delayed |-> FALSE,
    get_py_type_stack |-> <<>>,
    f |-> <<>>,
    py_in_globals |-> FALSE,
    anonymous_name_counter |-> 0,
    gname |-> <<>>, g_names |-> {},
    comppy_constructing |-> [d \in DOMAIN names |-> CUnset],
    comppy_written |-> {}, wrote_header |-> {}, delayed_write |-> {},
    exc |-> NoExc ]

\* the other parts of the program, not in use
ScopeIdle ==
  /\ stateNames = {} /\ identifiers = <<>> /\ gnames = {}
  /\ vars = <<>> /\ varNames = <<>> /\ scopeStack = <<>> /\ body = <<>>
  /\ nextDecl = 1 /\ nExterns = 0
FuncIdle ==
  /\ funcs = <<>> /\ func_cache = <<>> /\ gdict = <<>> /\ ntrans = <<>>
  /\ nextFunc = 1 /\ lastRun = [op |-> "none"]
HelperIdle ==
  /\ cells = <<>> /\ lastOp = [op |-> "none"] /\ snap = <<>>
LayoutIdle ==
  /\ decl = [d \in AllDecls |-> [kind |-> "struct", hasBody |-> FALSE, body |-> <<>>]]
  /\ gdecl = <<>>
  /\ contentlist = <<>>
  /\ pc = "idle"
  /\ idx = 1
  /\ cg = NewCodeGen(PlainNames)

LayoutInit ==
  /\ decl \in [AllDecls -> [kind : {"struct", "union"}, hasBody : BOOLEAN, body : Bodies \cup {<<>>}]]
  /\ decl[1].kind = "struct" /\ decl[1].hasBody
  /\ \A d \in AllDecls : decl[d].hasBody <=> decl[d].body # <<>>
  /\ \E names \in {PlainNames, PrefixNames, SameNames} :
       /\ names = PrefixNames => decl[2].hasBody
       /\ names = SameNames => ~decl[2].hasBody /\ decl[2].kind = "struct"
       /\ cg = NewCodeGen(names)
  \* a forward declaration stands before or after the other declaration
  /\ contentlist \in IF decl[2].hasBody THEN { <<1, 2>> } ELSE { <<1, 2>>, <<2, 1>> }
  /\ gdecl = <<>>
  /\ pc = "fix_names"
  /\ idx = 1

\* is the content a typedef, a function or a variable (and not an aggregate)
isGlobalDecl(c) == c \in DOMAIN gdecl
isTypedef(c) == isGlobalDecl(c) /\ gdecl[c].kind = "typedef"

\* set_name_for_typedeffed_struct: an aggregate without a name that is the
\* type of the typedef is named "_anonymous_%s" % obj.name
set_name_for_typedeffed_struct(s, c) ==
  IF gdecl[c].type[1].k # "agg" THEN s
  ELSE IF s.name[gdecl[c].type[1].d] # <<>> THEN s
  ELSE [s EXCEPT !.name[gdecl[c].type[1].d] = <<"_anonymous_">> \o s.gname[c]]

\* CodeGen.fix_names, one content: name the aggregate of a typedef, then
\* assert content.name; fix_name(content)
fix_names_content(s, c) ==
  IF isGlobalDecl(c)
  THEN IF s.gname[c] = <<>> THEN Raise(s, "AssertionError")
       ELSE [(IF isTypedef(c) THEN set_name_for_typedeffed_struct(s, c) ELSE s)
               EXCEPT !.gname[c] = fix_name(@)]
  ELSE IF s.name[c] = <<>> THEN Raise(s, "AssertionError")
       ELSE [s EXCEPT !.name[c] = fix_name(@)]

\* CodeGen.fix_names: the loop over state.contentlist
RECURSIVE fix_names(_, _)
fix_names(s, i) ==
  IF i > Len(contentlist) \/ s.exc # NoExc THEN s
  ELSE fix_names(fix_names_content(s, contentlist[i]), i + 1)

\* write_structs, the head (s is the state fix_names left): self._py_in_structs
\* = True and the "class structs" of _write_structs
write_structs_head(s) ==
  IF s.exc # NoExc THEN s
  ELSE Write([s EXCEPT !.py_in_structs = TRUE], Section("structs"))

\* CodeGen.fix_names, then the head of write_structs
FixNames ==
  /\ pc = "fix_names"
  /\ cg' = write_structs_head(fix_names(cg, 1))
  /\ pc' = IF cg'.exc # NoExc THEN "crashed" ELSE "structs"
  /\ idx' = 1
  /\ UNCHANGED <<decl, contentlist, gdecl>>
  /\ UNCHANGED <<scopeVars, funcVars, helperVars>>

\* _write_structs: if isinstance(content, cparser.CTypedef): content = content.type
\* (0 stands for a content that is neither a struct nor a union)
typedef_type(c) ==
  IF ~isGlobalDecl(c) THEN c
  ELSE IF isTypedef(c) /\ gdecl[c].type[1].k = "agg" THEN gdecl[c].type[1].d
  ELSE 0

\* one iteration of the loop of CodeGen._write_structs(base)
write_structs_item(s, base, content) ==
  IF content = 0 THEN s
  ELSE IF decl[content].kind # base THEN s
  ELSE IF isExternDecl(content)
  THEN LET c2 == getResolvedDecl(s, content)
       IN IF isExternDecl(c2) THEN write_struct_dummy_extern(s, c2) ELSE s
  ELSE try_write_struct(s, content)

WriteStructsItem ==
  /\ pc \in {"structs", "unions"}
  /\ idx <= Len(contentlist)
  /\ LET s == write_structs_item(cg, IF pc = "structs" THEN "struct" ELSE "union", typedef_type(contentlist[idx]))
     IN /\ cg' = s
        /\ pc' = IF s.exc # NoExc THEN "crashed" ELSE pc
  /\ idx' = idx + 1
  /\ UNCHANGED <<decl, contentlist, gdecl>>
  /\ UNCHANGED <<scopeVars, funcVars, helperVars>>

\* the loop of _write_structs is over: write_structs returns and write_unions
\* starts, or write_unions returns and write_delayed_structs starts
WriteStructsEnd ==
  /\ pc \in {"structs", "unions"}
  /\ idx > Len(contentlist)
  /\ IF pc = "structs"
     THEN /\ cg' = Write([cg EXCEPT !.py_in_structs = FALSE, !.py_in_unions = TRUE], Section("unions"))
          /\ pc' = "unions"
     ELSE /\ cg' = [cg EXCEPT !.py_in_unions = FALSE, !.py_in_delayed = TRUE]
          /\ pc' = "delayed"
  /\ idx' = 1
  /\ UNCHANGED <<decl, contentlist, gdecl>>
  /\ UNCHANGED <<scopeVars, funcVars, helperVars>>

\* one iteration of the loop of CodeGen.write_delayed_structs
write_delayed_item_requeue(s, t) ==
  [write_delayed_struct(s, t) EXCEPT !.delayed_structs = Append(@, t)]
write_delayed_item_no_skip(s, t) == write_delayed_struct(s, t)
write_delayed_item(s, t) ==
  IF s.name[t] \in DOMAIN struct_dict(s, t) THEN s ELSE write_delayed_struct(s, t)

WriteDelayedItem ==
  /\ pc = "delayed"
  /\ idx <= Len(cg.delayed_structs)
  /\ LET s == write_delayed_item(cg, cg.delayed_structs[idx])
     IN /\ cg' = s
        /\ pc' = IF s.exc # NoExc THEN "crashed" ELSE pc
  /\ idx' = idx + 1
  /\ UNCHANGED <<decl, contentlist, gdecl>>
  /\ UNCHANGED <<scopeVars, funcVars, helperVars>>

\* the tail of write_delayed_structs: del self.delayed_structs[:]
WriteDelayedEnd_keep_list ==
  /\ pc = "delayed"
  /\ idx > Len(cg.delayed_structs)
  /\ cg' = [cg EXCEPT !.py_in_delayed = FALSE]
  /\ pc' = "done"
  /\ idx' = 1
  /\ UNCHANGED <<decl, contentlist, gdecl>>
  /\ UNCHANGED <<scopeVars, funcVars, helperVars>>
WriteDelayedEnd ==
  /\ pc = "delayed"
  /\ idx > Len(cg.delayed_structs)
  /\ cg' = [cg EXCEPT !.delayed_structs = <<>>, !.py_in_delayed = FALSE]
  /\ pc' = "done"
  /\ idx' = 1
  /\ UNCHANGED <<decl, contentlist, gdecl>>
  /\ UNCHANGED <<scopeVars, funcVars, helperVars>>

LayoutNext ==
  \/ FixNames
  \/ WriteStructsItem
  \/ WriteStructsEnd
  \/ WriteDelayedItem
  \/ WriteDelayedEnd

Init == LayoutInit /\ ScopeIdle /\ FuncIdle /\ HelperIdle

Spec == Init /\ [][LayoutNext]_allVars

(***************************************************************************)
(* Claims about the layout compiler.                                       *)
(***************************************************************************)

\* what the output file holds
FinalEvents == { i \in 1..Len(cg.f) : cg.f[i].ev \in {"class", "fields"} }
EventsOf(ev, d) == { i \in 1..Len(cg.f) : cg.f[i].ev = ev /\ cg.f[i].node = d }
Pending == { cg.delayed_structs[j] : j \in 1..Len(cg.delayed_structs) }
Recorded(d) == cg.name[d] \in DOMAIN struct_dict(cg, d) /\ struct_dict(cg, d)[cg.name[d]] = d
\* no other declaration with a body comes out of fix_name under d's name
UniqueName(d) ==
  \A e \in AllDecls \ {d} : decl[e].hasBody /\ decl[e].kind = decl[d].kind
                             => fix_name(cg.name[e]) # fix_name(cg.name[d])
\* the pending pass has been at d
Visited(d) ==
  \/ pc = "done"
  \/ cg.py_in_delayed /\ \E j \in 1..Len(cg.delayed_structs) : j < idx /\ cg.delayed_structs[j] = d

\* C2 as claimed: every finalization, by the first pass or by the pending
\* pass, comes after a stub of the same aggregate in the output.
C2_StubBeforeEveryFinalize ==
  \A i \in FinalEvents : \E j \in 1..(i - 1) : cg.f[j].ev = "stub" /\ cg.f[j].node = cg.f[i].node

\* C2 amended: a field list written by the pending pass (_write_delayed_struct)
\* comes strictly after the stub of the same aggregate; an aggregate finalized
\* by the first pass (_write_struct) is written as one complete class and has
\* no stub at all.
C2_StubBeforePendingFinalize ==
  \A i \in FinalEvents :
    /\ cg.f[i].ev = "fields" =>
         \E j \in 1..(i - 1) : cg.f[j].ev = "stub" /\ cg.f[j].node = cg.f[i].node
    /\ cg.f[i].ev = "class" => EventsOf("stub", cg.f[i].node) = {}

C2_Witness ==
  /\ pc = "done"
  /\ \E i \in FinalEvents : cg.f[i].ev = "fields"
  /\ \E i \in FinalEvents : cg.f[i].ev = "class"

\* the member types of d that refer to d itself
SelfByPointer(d) == { TPtr(TAgg(e)) : e \in { e \in AllDecls : getResolvedDecl(cg, e) = d } }
\* struct Node { Node* next; }: d refers to itself, by pointer only, and to no other aggregate
SelfPtrOnly(d) ==
  /\ decl[d].hasBody
  /\ \A i \in 1..Len(decl[d].body) : decl[d].body[i] \in {TInt} \cup SelfByPointer(d)
  /\ \E i \in 1..Len(decl[d].body) : decl[d].body[i] \in SelfByPointer(d)

MutualByValue ==
  /\ decl[1].hasBody /\ decl[2].hasBody
  /\ \E i \in 1..Len(decl[1].body) : decl[1].body[i] = TAgg(2)
  /\ \E i \in 1..Len(decl[2].body) : decl[2].body[i] = TAgg(1)

\* C4: two aggregates that contain each other by value are never recorded as
\* finalized and no field list is written for either; the run does not end
\* normally but with RecursiveConstruction, raised at the first visit of the
\* pending pass.
C4_MutualByValueUnresolved ==
  MutualByValue =>
    /\ \A d \in AllDecls : ~Recorded(d) /\ EventsOf("class", d) = {} /\ EventsOf("fields", d) = {}
    /\ DOMAIN cg.structs = {} /\ DOMAIN cg.unions = {}
    /\ pc # "done"
    /\ pc = "crashed" => cg.exc = "RecursiveConstruction" /\ cg.py_in_delayed /\ idx = 2

C4_Witness ==
  MutualByValue /\ pc = "crashed" /\ cg.exc = "RecursiveConstruction"

\* C9: every field list written, by the first pass or by the pending pass,
\* has exactly one entry per member variable of the body, in declaration
\* order, each with the mapped type of that member and of no other.
ExpectedType(t) ==
  CASE t = TInt -> "ctypes_wrapped.c_int"
    [] t[1].k = "agg" -> base_type(t[1].d) \o "s." \o StrOf(cg.name[t[1].d])
    [] OTHER -> "ctypes.POINTER(" \o base_type(t[2].d) \o "s." \o StrOf(cg.name[t[2].d]) \o ")"

C10_AtMostOnce ==
  /\ cg.exc # "AssertionError"
  /\ \A d \in AllDecls :
       /\ Cardinality(EventsOf("stub", d)) <= 1
       /\ Cardinality(EventsOf("class", d) \cup EventsOf("fields", d) \cup EventsOf("dummy", d)) <= 1
  /\ \A i, j \in FinalEvents : cg.f[i].kind = cg.f[j].kind /\ cg.f[i].name = cg.f[j].name => i = j

\* ---- the pending pass ----
\* the field list of d has been written, by either pass
Finalized(d) == EventsOf("class", d) \cup EventsOf("fields", d) # {}
\* the step is one iteration of the loop of write_delayed_structs
VisitStep == pc = "delayed" /\ idx' = idx + 1
\* what the step has written
Written == SubSeq(cg'.f, Len(cg.f) + 1, Len(cg'.f))

\* C17: an aggregate is appended to delayed_structs at most once and at the
\* end, and the list stays as it is until the pending pass has gone through
\* it; the pass takes the entries in the order of the list; an entry that is
\* finalized already is passed over, nothing is written for it and no field
\* list is written twice; an entry that is not finalized and has its name to
\* itself is begun with its stub.
C17_PendingVisitedInPushOrder ==
  [][ /\ \/ cg'.delayed_structs = cg.delayed_structs
         \/ \E d \in DOMAIN decl : d \notin Pending /\ cg'.delayed_structs = Append(cg.delayed_structs, d)
         \/ pc = "delayed" /\ idx > Len(cg.delayed_structs) /\ cg'.delayed_structs = <<>>
      /\ VisitStep =>
           /\ idx <= Len(cg.delayed_structs)
           /\ \A j \in 1..(idx - 1) : Finalized(cg.delayed_structs[j]) \/ ~UniqueName(cg.delayed_structs[j])
           /\ Finalized(cg.delayed_structs[idx]) => cg'.f = cg.f /\ pc' = "delayed"
           /\ (~Finalized(cg.delayed_structs[idx]) /\ UniqueName(cg.delayed_structs[idx])) =>
                /\ Written # <<>>
                /\ Written[1].ev = "stub" /\ Written[1].node = cg.delayed_structs[idx]
           /\ \A d \in DOMAIN decl : Cardinality({ i \in DOMAIN cg'.f : cg'.f[i].ev = "fields" /\ cg'.f[i].node = d }) <= 1
    ]_allVars

\* both aggregates were pushed, the retry of the first one has finalized the
\* second one as well, and the pass has passed over the second entry
C17_Witness ==
  /\ pc = "delayed"
  /\ cg.delayed_structs = <<1, 2>>
  /\ idx = 3
  /\ \E i \in EventsOf("fields", 2) : \E j \in EventsOf("fields", 1) : i < j /\ j = Len(cg.f)

\* the name of d is recorded in structs / unions, for d or for another aggregate
NameRecorded(d) == cg.name[d] \in DOMAIN struct_dict(cg, d)

C19_PendingAllFinalized ==
  pc = "done" =>
    /\ cg.delayed_structs = <<>>
    /\ \A d \in cg.delayed_write : Recorded(d) /\ EventsOf("fields", d) # {}

\* ---- termination of the passes ----
\* the passes in their order; a pass that raised is over
PassOrder(p) ==
  CASE p = "fix_names" -> 0 [] p = "structs" -> 1 [] p = "unions" -> 2
    [] p = "delayed" -> 3 [] OTHER -> 4
\* the list the loop of the pass at hand runs over
LoopList(p, s) == IF p = "delayed" THEN s.delayed_structs ELSE contentlist
\* does a member of d refer to e by value / through a pointer
ByValue(d, e) == \E i \in DOMAIN decl[d].body : decl[d].body[i] = TAgg(e)
ByPointer(d, e) == \E i \in DOMAIN decl[d].body : decl[d].body[i] = TPtr(TAgg(e))

\* C23: for every declaration graph, with aggregates that refer to
\* themselves or to each other by pointer or by value, the struct pass, the
\* union pass and the pending pass terminate: the loop of a pass stands at a
\* place of its list or at its end, and each round (the construction of an
\* aggregate and the mapping of its member types, which return or raise)
\* moves the loop one place on in a list that does not change during the
\* pass, or ends the pass.
C23_PassesTerminate ==
  /\ [](PassOrder(pc) \in 1..3 => idx \in 1..(Len(LoopList(pc, cg)) + 1))
  /\ [][ \/ PassOrder(pc') > PassOrder(pc)
         \/ /\ pc' = pc
            /\ idx <= Len(LoopList(pc, cg))
            /\ idx' = idx + 1
            /\ LoopList(pc, cg') = LoopList(pc, cg) ]_allVars

\* the passes are over for two aggregates that refer to each other, one by
\* value and one through a pointer, the first also to itself
C23_Witness ==
  /\ pc = "done"
  /\ ByValue(1, 2) /\ ByPointer(1, 1)
  /\ ByPointer(2, 1)
  /\ Pending = {}
  /\ \A d \in AllDecls : Finalized(d)

\* ---- the marker _comppy_constructing ----
\* C28: when _try_write_struct or write_delayed_structs has returned or
\* raised, no aggregate is marked as under construction: the marker of every
\* aggregate is unset, False or the empty list, also after a
\* RecursiveConstruction error.
C28_NoMarkerLeftBehind ==
  pc # "delayed" => \A d \in AllDecls : ~Truthy(cg.comppy_constructing[d])

\* ---- the type-mapping stack ----
\* C30: every call of get_py_type leaves _get_py_type_stack as it found it,
\* whether it returns or raises: between the rounds of the passes, and after
\* a pass has raised, the stack is empty, and the round of the pending pass
\* that comes next reads no parent type off it.
C30_TypeStackEmptyBetweenRounds ==
  /\ cg.get_py_type_stack = <<>>
  /\ pc = "delayed" => parent_type(cg.get_py_type_stack) = <<>>

\* both aggregates were deferred by an exception that passed through
\* get_py_type, and the pending pass has retried the first of them
C30_Witness ==
  /\ pc = "delayed"
  /\ idx = 2
  /\ Len(cg.delayed_structs) = 2
  /\ \E i \in DOMAIN cg.f : cg.f[i].ev = "fields"

(***************************************************************************)
(* PART 1b.  The whole of main(): anonymous aggregates, typedefs, and the   *)
(* passes after the layout compiler (write_values, write_globals,          *)
(* write_footer of compile_to_py.py).                                      *)
(***************************************************************************)

\* Largest number of typedefs, functions and variables in the contentlist.
MaxGlobals == 2

\* The declaration nodes: aggregate 1 is named or is the anonymous aggregate
\* of a typedef; aggregates 2 and 3 are anonymous members.
MainDecls == {1, 2, 3}

TypedefDecl(n, t) == [kind |-> "typedef", name |-> n, type |-> t, ok |-> TRUE]
\* ok: does _translateFuncToPyAst return (or raise)
FuncDecl(n, ok) == [kind |-> "func", name |-> n, type |-> TInt, ok |-> ok]
VarDecl(n) == [kind |-> "var", name |-> n, type |-> TInt, ok |-> TRUE]

GlobalDecls ==
  { TypedefDecl(<<"T">>, TAgg(1)), TypedefDecl(<<"T">>, TInt),
    TypedefDecl(<<"P">>, TPtr(TAgg(3))), TypedefDecl(<<"T">>, TBad),
    FuncDecl(<<"f">>, TRUE), FuncDecl(<<"f">>, FALSE),
    VarDecl(<<"v">>), VarDecl(<<"T">>) }

\* the ids of the global declarations
GlobalIds(n) == { 10 + i : i \in 1..n }
GlobalSeq(n) == [i \in 1..n |-> 10 + i]

MainBodies1 == { <<TInt>>, <<TAgg(2), TAgg(3)>>, <<TAgg(2), TPtr(TAgg(3))>>, <<TBad>> }
MainBodies2 == { <<TInt>>, <<TAgg(1)>> }

MainInit ==
  /\ decl \in [MainDecls -> [kind : {"struct", "union"}, hasBody : {TRUE}, body : MainBodies1 \cup MainBodies2]]
  /\ decl[1].kind = "struct" /\ decl[1].body \in MainBodies1
  /\ decl[2].body \in MainBodies2
  /\ decl[3].kind = "struct" /\ decl[3].body = <<TInt>>
  /\ \E n \in 1..MaxGlobals :
       /\ gdecl \in [GlobalIds(n) -> GlobalDecls]
       /\ \E named \in BOOLEAN :
            /\ contentlist \in IF named THEN { <<1>> \o GlobalSeq(n), GlobalSeq(n) \o <<1>> }
                                        ELSE { GlobalSeq(n) }
            /\ cg = [NewCodeGen((1 :> IF named THEN <<"A">> ELSE <<>>) @@ (2 :> <<>>) @@ (3 :> <<>>))
                       EXCEPT !.gname = [c \in DOMAIN gdecl |-> gdecl[c].name]]
  /\ pc = "fix_names"
  /\ idx = 1

\* one thing written to the output file for a global declaration
EmitGlobal(ev, c, nm) == [ev |-> ev, kind |-> "global", name |-> nm, node |-> c, fields |-> <<>>]

\* write_globals, a typedef: f.write("    %s = %s\n" % (content.name, self.get_py_type(content.type)))
\* (r is what get_py_type returned)
write_globals_typedef(r, c) ==
  IF r.s.exc # NoExc THEN r.s
  ELSE Write(r.s, [EmitGlobal("typedef", c, r.s.gname[c])
                     EXCEPT !.fields = << <<StrOf(r.s.gname[c]), r.v>> >>])

\* write_globals, the branches on the class of the content
write_globals_compile(s, c) ==
  CASE gdecl[c].kind = "func" ->
         IF gdecl[c].ok THEN Write(s, EmitGlobal("def", c, s.gname[c])) ELSE Raise(s, "Exception")
    [] gdecl[c].kind = "typedef" -> write_globals_typedef(get_py_type(s, gdecl[c].type), c)
    [] gdecl[c].kind = "var" -> Write(s, EmitGlobal("vardecl", c, s.gname[c]))
    [] OTHER -> Raise(s, "Exception")

\* write_globals, the except clause: the placeholder under content.name
write_globals_except_silent(s, c) == Raise(s, NoExc)
write_globals_except(s, c) ==
  IF s.exc = NoExc THEN s
  ELSE IF s.gname[c] # <<>>
  THEN Write(Raise(s, NoExc), EmitGlobal("placeholder", c, s.gname[c]))
  ELSE Raise(s, NoExc)

\* write_globals, the try block from fix_name(content) on
write_globals_try(s, c) ==
  IF s.gname[c] = <<>> THEN s
  ELSE IF fix_name(s.gname[c]) \in s.g_names
  THEN [s EXCEPT !.gname[c] = fix_name(@)]                      \* "defined twice"
  ELSE write_globals_compile([s EXCEPT !.gname[c] = fix_name(@),
                                       !.g_names = @ \cup {fix_name(s.gname[c])}], c)

\* one iteration of the loop of CodeGen.write_globals
write_globals_item(s, c) ==
  IF ~isGlobalDecl(c) THEN s                                    \* handled in the other loops
  ELSE write_globals_except(write_globals_try(s, c), c)

\* CodeGen.write_values (the parsed state holds no wrapped values), then the
\* head of write_globals
WriteValues_after_globals_head ==
  /\ pc = "done"
  /\ cg' = Write([Write(cg, Section("globals")) EXCEPT !.py_in_globals = TRUE, !.g_names = {}],
                 Section("values"))
  /\ pc' = "globals"
  /\ idx' = 1
  /\ UNCHANGED <<decl, contentlist, gdecl>>
  /\ UNCHANGED <<scopeVars, funcVars, helperVars>>
WriteValues ==
  /\ pc = "done"
  /\ cg' = Write([Write(cg, Section("values")) EXCEPT !.py_in_globals = TRUE, !.g_names = {}],
                 Section("globals"))
  /\ pc' = "globals"
  /\ idx' = 1
  /\ UNCHANGED <<decl, contentlist, gdecl>>
  /\ UNCHANGED <<scopeVars, funcVars, helperVars>>

WriteGlobalsItem ==
  /\ pc = "globals"
  /\ idx <= Len(contentlist)
  /\ LET s == write_globals_item(cg, contentlist[idx])
     IN /\ cg' = s
        /\ pc' = IF s.exc # NoExc THEN "crashed" ELSE pc
  /\ idx' = idx + 1
  /\ UNCHANGED <<decl, contentlist, gdecl>>
  /\ UNCHANGED <<scopeVars, funcVars, helperVars>>

\* the tail of write_globals, then write_footer
WriteGlobalsEnd ==
  /\ pc = "globals"
  /\ idx > Len(contentlist)
  /\ cg' = Write([cg EXCEPT !.py_in_globals = FALSE], Section("footer"))
  /\ pc' = "end"
  /\ idx' = 1
  /\ UNCHANGED <<decl, contentlist, gdecl>>
  /\ UNCHANGED <<scopeVars, funcVars, helperVars>>

MainNext ==
  \/ FixNames
  \/ WriteStructsItem
  \/ WriteStructsEnd
  \/ WriteDelayedItem
  \/ WriteDelayedEnd
  \/ WriteValues
  \/ WriteGlobalsItem
  \/ WriteGlobalsEnd

InitMain == MainInit /\ ScopeIdle /\ FuncIdle /\ HelperIdle

SpecMain == InitMain /\ [][MainNext]_allVars

\* ---- the claims about main() ----
AggEvents == {"stub", "class", "fields", "dummy"}
GlobalEvents == {"def", "typedef", "vardecl", "placeholder"}
\* the aggregates without a name in the input: fix_names asserts a name for
\* every aggregate that stands in the contentlist itself
Anonymous(d) == ~InContentlist(d)
\* the typedefs whose type is the aggregate
TypedefsOf(d) == { c \in DOMAIN gdecl : gdecl[c].kind = "typedef" /\ gdecl[c].type = TAgg(d) }
CounterNames == { <<"_local_", "_anonymous_", ToString(n)>> : n \in 1..cg.anonymous_name_counter }
CounterNamed(d) == Anonymous(d) /\ TypedefsOf(d) = {} /\ cg.name[d] # <<>>
EmittedAs(d, evs) == \E i \in DOMAIN cg.f : cg.f[i].ev \in evs /\ cg.f[i].node = d

\* C11: every stub, class or field list written for an anonymous aggregate
\* carries the synthetic name the aggregate has been given: "_anonymous_<T>"
\* if a typedef named T has the aggregate as its type, otherwise the name
\* derived from the counter; two counter-named aggregates never share a name.
C11_AnonymousNamedBeforeEmission ==
  /\ \A i \in DOMAIN cg.f :
       (cg.f[i].ev \in AggEvents /\ Anonymous(cg.f[i].node)) =>
          /\ cg.f[i].name # <<>>
          /\ cg.f[i].name = cg.name[cg.f[i].node]
          /\ IF TypedefsOf(cg.f[i].node) # {}
             THEN \E c \in TypedefsOf(cg.f[i].node) : cg.f[i].name = <<"_anonymous_">> \o gdecl[c].name
             ELSE cg.f[i].name \in CounterNames
  /\ \A d1, d2 \in DOMAIN decl :
       (CounterNamed(d1) /\ CounterNamed(d2) /\ d1 # d2) => cg.name[d1] # cg.name[d2]

\* the anonymous aggregate of "typedef struct { ... } T" and its two anonymous
\* members have all been written, under three different synthetic names
C11_Witness ==
  /\ pc = "end"
  /\ \A d \in {1, 2, 3} : Anonymous(d) /\ EmittedAs(d, {"class", "fields"})
  /\ cg.name[1] = <<"_anonymous_", "T">>
  /\ cg.name[2] = <<"_local_", "_anonymous_", "1">>
  /\ cg.name[3] = <<"_local_", "_anonymous_", "2">>

\* the global declarations write_globals has been through
GlobalsDone ==
  { contentlist[i] : i \in { j \in DOMAIN contentlist :
        isGlobalDecl(contentlist[j]) /\ (pc = "end" \/ (pc = "globals" /\ j < idx)) } }
\* the declarations whose compilation raises whatever the aggregates are
RaisesAlways(c) ==
  \/ gdecl[c].kind = "func" /\ ~gdecl[c].ok
  \/ gdecl[c].kind = "typedef" /\ gdecl[c].type = TBad
NeverRaises(c) ==
  \/ gdecl[c].kind = "func" /\ gdecl[c].ok
  \/ gdecl[c].kind = "typedef" /\ gdecl[c].type = TInt
  \/ gdecl[c].kind = "var"
GlobalEventsOf(c) == { i \in DOMAIN cg.f : cg.f[i].ev \in GlobalEvents /\ cg.f[i].node = c }
\* the first declaration of its name in the contentlist
FirstOfName(c) ==
  \A i, j \in DOMAIN contentlist :
    (contentlist[j] = c /\ i < j /\ isGlobalDecl(contentlist[i])) => cg.gname[contentlist[i]] # cg.gname[c]

\* C15: an exception raised while write_globals compiles one declaration does
\* not leave write_globals: a placeholder is written under the name of the
\* declaration, the declarations after it are gone through as well, and every
\* global name is written at most once.
C15_GlobalExceptionContained ==
  /\ pc = "crashed" => \A i \in DOMAIN cg.f : cg.f[i] # Section("globals")
  /\ pc \in {"globals", "end"} => cg.exc = NoExc
  /\ \A i, j \in DOMAIN cg.f :
       (i < j /\ cg.f[i].ev \in GlobalEvents /\ cg.f[j].ev \in GlobalEvents) => cg.f[i].name # cg.f[j].name
  /\ \A c \in GlobalsDone :
       /\ \E i \in DOMAIN cg.f : cg.f[i].ev \in GlobalEvents /\ cg.f[i].name = cg.gname[c]
       /\ FirstOfName(c) =>
            /\ Cardinality(GlobalEventsOf(c)) = 1
            /\ RaisesAlways(c) => \A i \in GlobalEventsOf(c) : cg.f[i].ev = "placeholder"
            /\ NeverRaises(c) => \A i \in GlobalEventsOf(c) : cg.f[i].ev # "placeholder"
       /\ ~FirstOfName(c) => GlobalEventsOf(c) = {}

\* the first declaration raised and has its placeholder, the second one was
\* compiled after it
C15_Witness ==
  /\ pc = "end"
  /\ 11 \in DOMAIN gdecl /\ 12 \in DOMAIN gdecl
  /\ RaisesAlways(11)
  /\ \E i \in GlobalEventsOf(11) : cg.f[i].ev = "placeholder"
  /\ \E i \in GlobalEventsOf(12) : cg.f[i].ev \in {"def", "typedef", "vardecl"}

\* the place of something written in the order the claim gives: struct stubs,
\* struct finalizations, union stubs and finalizations, the other global
\* declarations, the value table
ClaimedRank(e) ==
  CASE e.ev = "section" /\ e.kind = "structs" -> 1
    [] e.ev = "section" /\ e.kind = "unions" -> 3
    [] e.ev = "section" /\ e.kind = "globals" -> 4
    [] e.ev = "section" /\ e.kind = "values" -> 5
    [] e.ev = "section" /\ e.kind = "footer" -> 6
    [] e.ev \in GlobalEvents -> 4
    [] e.kind = "union" -> 3
    [] e.ev = "stub" -> 1
    [] OTHER -> 2
\* its place in the order of the passes of main: the struct section (whole
\* classes, placeholders of externs), the union section, the stubs and field
\* lists of the pending aggregates, the value table, the global declarations
PassRank(e) ==
  CASE e.ev = "section" /\ e.kind = "structs" -> 1
    [] e.ev = "section" /\ e.kind = "unions" -> 2
    [] e.ev = "section" /\ e.kind = "values" -> 4
    [] e.ev = "section" /\ e.kind = "globals" -> 5
    [] e.ev = "section" /\ e.kind = "footer" -> 6
    [] e.ev \in GlobalEvents -> 5
    [] e.ev \in {"stub", "fields"} -> 3
    [] e.kind = "union" -> 2
    [] OTHER -> 1

\* C16 as claimed: what is written comes in the order struct stubs, struct
\* finalizations, union stubs and finalizations, global declarations, value
\* table.
C16_SectionsInClaimedOrder ==
  \A i, j \in DOMAIN cg.f : i < j => ClaimedRank(cg.f[i]) <= ClaimedRank(cg.f[j])

\* C16 amended: what is written comes in the order of the passes of main: the
\* classes of the structs that could be completed at once and the
\* placeholders of extern structs, the same for the unions, then the stubs
\* and field lists of the pending structs and unions, then the value table,
\* then the other global declarations.
C16_SectionsInPassOrder ==
  \A i, j \in DOMAIN cg.f : i < j => PassRank(cg.f[i]) <= PassRank(cg.f[j])

\* a run to the end that has written a stub of a pending struct after the
\* union section, and a global declaration after the value table
C16_Witness ==
  /\ pc = "end"
  /\ \E i, j \in DOMAIN cg.f :
       i < j /\ cg.f[i] = Section("unions") /\ cg.f[j].ev = "stub" /\ cg.f[j].kind = "struct"
  /\ \E i, j \in DOMAIN cg.f :
       i < j /\ cg.f[i] = Section("values") /\ cg.f[j].ev \in GlobalEvents

\* C20: an error inside the layout compiler does not end the run: when main
\* has come to its end, by returning or by an exception, every global
\* declaration of the contentlist has been written under its name, as the
\* declaration or as its placeholder.
C20_LayoutErrorKeepsTheRun ==
  pc \in {"crashed", "end"} =>
    \A c \in DOMAIN gdecl :
      \E i \in DOMAIN cg.f : cg.f[i].ev \in GlobalEvents /\ cg.f[i].name = cg.gname[c]

(***************************************************************************)
(* PART 1c.  main() over typedefs of array types (the CArrayType branch of  *)
(* CodeGen._get_py_type).                                                  *)
(***************************************************************************)

\* the element types of the arrays, and the array types of the typedefs
ElementTypes == {TInt, TAgg(1), TPtr(TAgg(1))}
ArrayTypes ==
  { TArray(n, t) : n \in {1, 3}, t \in ElementTypes }
    \cup { TArrayNoLen(t) : t \in ElementTypes }
    \cup { TArrayNoConst(t) : t \in ElementTypes }
    \cup { TArray(2, TArray(3, TInt)), TPtr(TArray(3, TInt)) }

\* struct A with an int member, a member of union B, or a pointer to itself
\* and a member of union B, and "typedef <array type> T<i>;" for one global
\* or more
ArrayInit ==
  /\ decl \in [AllDecls -> [kind : {"struct", "union"}, hasBody : {TRUE},
                           body : {<<TInt>>, <<TAgg(2)>>, <<TPtr(TAgg(1)), TAgg(2)>>}]]
  /\ decl[1].kind = "struct"
  /\ decl[2].kind = "union" /\ decl[2].body = <<TInt>>
  /\ \E n \in 1..MaxGlobals :
       /\ \E types \in [GlobalIds(n) -> ArrayTypes] :
            gdecl = [c \in GlobalIds(n) |-> TypedefDecl(<<"T", ToString(c)>>, types[c])]
       /\ contentlist = <<1, 2>> \o GlobalSeq(n)
  /\ cg = [NewCodeGen(PlainNames) EXCEPT !.gname = [c \in DOMAIN gdecl |-> gdecl[c].name]]
  /\ pc = "fix_names"
  /\ idx = 1

InitArray == ArrayInit /\ ScopeIdle /\ FuncIdle /\ HelperIdle

SpecArray == InitArray /\ [][MainNext]_allVars

\* the places of the output that hold the typedef of an array type
ArrayTypedefs ==
  { i \in DOMAIN cg.f : cg.f[i].ev = "typedef" /\ gdecl[cg.f[i].node].type[1].k \in ArrayKinds }
\* the mapped type of the elements of an array the model draws
ElementType(t) ==
  IF t[1].k = "array" THEN "ctypes_wrapped.c_int * " \o ToString(t[1].d) ELSE ExpectedType(t)
\* the type the typedef at place i of the output is given
TypeWritten(i) == cg.f[i].fields[1][2]
\* a block of n elements of type e, and a pointer to e
Block(e, n) == e \o " * " \o ToString(n)
PointerTo(e) == "ctypes.POINTER(" \o e \o ")"

\* C24 as claimed: an array type with the constant length n is mapped to a
\* block of n elements of the mapped element type, and an array type without
\* a known length to the pointer to the element type, never to a block.
C24_ArrayBlockOrPointer ==
  \A i \in ArrayTypedefs :
    LET t == gdecl[cg.f[i].node].type
    IN IF t[1].k = "array"
       THEN TypeWritten(i) = Block(ElementType(Tail(t)), t[1].d)
       ELSE TypeWritten(i) = PointerTo(ElementType(Tail(t)))

\* C24 amended: an array type with a length of the constant value n is mapped
\* to a block of n elements of the mapped element type; an array type without
\* a length is mapped to the pointer to the element type; an array type with
\* a length that has no constant value is mapped to a block of one element.
C24_ArrayBlockPointerOrOne ==
  \A i \in ArrayTypedefs :
    LET t == gdecl[cg.f[i].node].type
    IN TypeWritten(i) =
         CASE t[1].k = "array" -> Block(ElementType(Tail(t)), t[1].d)
           [] t[1].k = "array_nolen" -> PointerTo(ElementType(Tail(t)))
           [] t[1].k = "array_noconst" -> Block(ElementType(Tail(t)), 1)

\* the typedefs of struct A[3] and of an array of pointers without length
\* have been written
C24_Witness ==
  /\ pc = "end"
  /\ \E i \in ArrayTypedefs : TypeWritten(i) = "structs.A * 3"
  /\ \E i \in ArrayTypedefs : TypeWritten(i) = "ctypes.POINTER(ctypes.POINTER(structs.A))"

\* the aggregate a type refers to, by value or through pointers and arrays
AggregatesOf(t) == IF t[Len(t)].k = "agg" THEN {t[Len(t)].d} ELSE {}
\* the aggregates the line at place i of the output refers to: the member
\* types of a field list, the type of a typedef
ReferredAt(i) ==
  IF cg.f[i].ev \in {"class", "fields"}
  THEN UNION { AggregatesOf(decl[cg.f[i].node].body[k]) : k \in DOMAIN decl[cg.f[i].node].body }
  ELSE IF cg.f[i].ev = "typedef" THEN AggregatesOf(gdecl[cg.f[i].node].type)
  ELSE {}
\* structs.X / unions.X exists before place i: a stub, a full definition or
\* the placeholder of an extern declaration has been written for the name
ExistsBefore(d, i) ==
  \E j \in 1..(i - 1) :
    /\ cg.f[j].ev \in AggEvents
    /\ cg.f[j].kind = base_type(d)
    /\ cg.f[j].name = cg.name[d]

MaxDecls == 2
\* depth of the stack of block scopes
MaxDepth == 2
\* calls of registerExternVar
MaxExterns == 1

\* iterIdentifierNames: the n-th postfix, n = 0, 1, ...: a, b, ..., 9, ba, bb, ...
IdChars == << "a", "b", "c", "d", "e", "f", "g", "h", "i", "j", "k", "l", "m",
              "n", "o", "p", "q", "r", "s", "t", "u", "v", "w", "x", "y", "z",
              "0", "1", "2", "3", "4", "5", "6", "7", "8", "9" >>
RECURSIVE iterIdentifierNames(_)
iterIdentifierNames(n) ==
  IF n < Len(IdChars) THEN IdChars[n + 1]
  ELSE iterIdentifierNames(n \div Len(IdChars)) \o IdChars[(n % Len(IdChars)) + 1]

\* a declaration without name (name None)
NoName == ""

\* iterIdWithPostfixes(name): the k-th candidate, k = 0, 1, ...
iterIdWithPostfixes(nm, k) ==
  IF nm = NoName THEN "__dummy_" \o iterIdentifierNames(k)
  ELSE IF k = 0 THEN nm
  ELSE nm \o "_" \o iterIdentifierNames(k - 1)

\* PyReservedNames: dir(__builtin__) + keyword.kwlist + ["ctypes", "helpers"]
\* (some builtins and keywords stand for all of them)
PyReservedNames == {"len", "id", "None", "print", "in", "ctypes", "helpers"}
isValidVarName_no_check(nm) == TRUE
isValidVarName(nm) == nm \notin PyReservedNames

\* the C names of the local declarations the model registers
LocalRawNames == {"x", "len", "g", NoName}
\* the C names the parsed state may hold as globals (vars, typedefs, funcs)
GlobalRawNames == {"x", "x_a", "len"}
\* the names findIdentifier is called with from outside
LookupNames == {"x", "len", "ctypes"}
\* the prefixes registerExternVar is called with
ExternPrefixes == {"x", "ctypes"}


\* GlobalScope._findId
findId(nm) == nm \in stateNames

\* GlobalScope.findIdentifier: the identifiers after the lookup (a name found
\* in the parser state is bound on first use)
findIdentifier_bind(ids, nm) ==
  IF nm \in DOMAIN ids THEN ids
  ELSE IF findId(nm) THEN (nm :> "decl") @@ ids
  ELSE ids
\* GlobalScope.findIdentifier: is something found
findIdentifier(ids, nm) == nm \in DOMAIN ids \/ findId(nm)

\* FuncEnv.searchVarName(name) is not None
searchVarName_locals_only(vs, ids, nm) == nm \in DOMAIN vs
searchVarName(vs, ids, nm) == nm \in DOMAIN vs \/ findIdentifier(ids, nm)

\* FuncEnv._registerNewVar: the index of the candidate it takes
RECURSIVE registerNewVar_index(_, _, _, _)
registerNewVar_index(vs, ids, nm, k) ==
  LET c == iterIdWithPostfixes(nm, k)
  IN IF isValidVarName(c) /\ ~searchVarName(vs, ids, c) THEN k
     ELSE registerNewVar_index(vs, ids, nm, k + 1)

\* the identifiers after the lookups of candidates 0 .. k
RECURSIVE lookups(_, _, _, _)
lookups(ids, nm, k, skipInvalid) ==
  LET before == IF k = 0 THEN ids ELSE lookups(ids, nm, k - 1, skipInvalid)
      c == iterIdWithPostfixes(nm, k)
  IN IF skipInvalid /\ (~isValidVarName(c) \/ c \in DOMAIN vars) THEN before
     ELSE findIdentifier_bind(before, c)

\* GlobalScope.registerExternVar: the index of the candidate it takes
RECURSIVE registerExternVar_index(_, _, _)
registerExternVar_index(ids, nm, k) ==
  IF ~findIdentifier(ids, iterIdWithPostfixes(nm, k)) THEN k
  ELSE registerExternVar_index(ids, nm, k + 1)

Remove_nothing(f, keys) == f
Remove(f, keys) == [x \in DOMAIN f \ keys |-> f[x]]

ScopeInit ==
  /\ stateNames \in SUBSET GlobalRawNames
  /\ identifiers = <<>>
  /\ gnames = {}
  /\ vars = <<>>
  /\ varNames = <<>>
  /\ scopeStack = <<>>
  /\ body = <<>>
  /\ nextDecl = 1
  /\ nExterns = 0

\* GlobalScope.findIdentifier(name), called from outside
FindIdentifier(nm) ==
  /\ identifiers' = findIdentifier_bind(identifiers, nm)
  /\ gnames' = IF nm \notin DOMAIN identifiers /\ findId(nm) THEN gnames \cup {nm} ELSE gnames
  /\ UNCHANGED <<stateNames, vars, varNames, scopeStack, body, nextDecl, nExterns>>
  /\ UNCHANGED <<layoutVars, funcVars, helperVars>>

\* GlobalScope.registerExternVar(name_prefix, value); no function is being
\* translated (registerExterns is called by Interpreter.registerFinalize)
RegisterExternVar(prefix) ==
  /\ scopeStack = <<>>
  /\ nExterns < MaxExterns
  /\ LET k == registerExternVar_index(identifiers, prefix, 0)
         ids == IF k = 0 THEN identifiers ELSE lookups(identifiers, prefix, k - 1, FALSE)
     IN /\ identifiers' = (iterIdWithPostfixes(prefix, k) :> "wrap") @@ ids
        /\ gnames' = gnames \cup (DOMAIN ids \ DOMAIN identifiers)
  /\ nExterns' = nExterns + 1
  /\ UNCHANGED <<stateNames, vars, varNames, scopeStack, body, nextDecl>>
  /\ UNCHANGED <<layoutVars, funcVars, helperVars>>

\* FuncEnv.pushScope
PushScope ==
  /\ Len(scopeStack) < MaxDepth
  /\ scopeStack' = Append(scopeStack, {})
  /\ UNCHANGED <<stateNames, identifiers, gnames, vars, varNames, body, nextDecl, nExterns>>
  /\ UNCHANGED <<layoutVars, funcVars, helperVars>>

\* FuncEnv.registerNewVar -> FuncCodeblockScope.registerNewVar -> FuncEnv._registerNewVar
RegisterNewVar(nm) ==
  /\ scopeStack # <<>>
  /\ nextDecl <= MaxDecls
  /\ LET k == registerNewVar_index(vars, identifiers, nm, 0)
         c == iterIdWithPostfixes(nm, k)
         ids == lookups(identifiers, nm, k, TRUE)
     IN /\ vars' = (c :> nextDecl) @@ vars
        /\ varNames' = (nextDecl :> c) @@ varNames
        /\ scopeStack' = [scopeStack EXCEPT ![Len(scopeStack)] = @ \cup {c}]
        /\ body' = Append(body, [op |-> "assign", name |-> c])
        /\ identifiers' = ids
        /\ gnames' = gnames \cup (DOMAIN ids \ DOMAIN identifiers)
  /\ nextDecl' = nextDecl + 1
  /\ UNCHANGED <<stateNames, nExterns>>
  /\ UNCHANGED <<layoutVars, funcVars, helperVars>>

\* a set of names as a sequence, in some order (iteration over a Python set)
RECURSIVE SetToSeq(_)
SetToSeq(S) == IF S = {} THEN <<>> ELSE LET x == CHOOSE x \in S : TRUE IN <<x>> \o SetToSeq(S \ {x})

\* FuncEnv.popScope -> FuncCodeblockScope.finishMe -> FuncEnv._unregisterVar
PopScope ==
  /\ scopeStack # <<>>
  /\ LET scope == scopeStack[Len(scopeStack)]
         dels == SetToSeq(scope)
     IN /\ body' = body \o [i \in 1..Len(dels) |-> [op |-> "delete", name |-> dels[i]]]
        /\ varNames' = Remove(varNames, { vars[n] : n \in scope })
        /\ vars' = Remove(vars, scope)
  /\ scopeStack' = SubSeq(scopeStack, 1, Len(scopeStack) - 1)
  /\ UNCHANGED <<stateNames, identifiers, gnames, nextDecl, nExterns>>
  /\ UNCHANGED <<layoutVars, funcVars, helperVars>>

ScopeNext ==
  \/ \E nm \in LookupNames : FindIdentifier(nm)
  \/ \E p \in ExternPrefixes : RegisterExternVar(p)
  \/ PushScope
  \/ \E nm \in LocalRawNames : RegisterNewVar(nm)
  \/ PopScope

InitScope == ScopeInit /\ LayoutIdle /\ FuncIdle /\ HelperIdle

SpecScope == InitScope /\ [][ScopeNext]_allVars

(***************************************************************************)
(* Claims about the scope and symbol manager.                              *)
(***************************************************************************)

\* the host names of the global bindings
GlobalBound == DOMAIN identifiers
\* the host names of the live local bindings
LocalBound == { varNames[d] : d \in DOMAIN varNames }

\* C1 as claimed: no two live bindings of one scope chain (the locals of the
\* function and the globals) have the same host name, and no bound host name,
\* local or global, is in PyReservedNames.
C1_NamesUniqueAndNotReserved ==
  /\ \A d1, d2 \in DOMAIN varNames : d1 # d2 => varNames[d1] # varNames[d2]
  /\ LocalBound \cap GlobalBound = {}
  /\ (LocalBound \cup GlobalBound) \cap PyReservedNames = {}

\* C1 amended: no two live local bindings have the same host name, no live
\* local binding has the host name of a global binding or of a global the
\* parser state holds, and no local host name is in PyReservedNames.  (A
\* global binding keeps the name it is asked for, reserved or not.)
C1_LocalNamesUniqueAndNotReserved ==
  /\ \A d1, d2 \in DOMAIN varNames : d1 # d2 => varNames[d1] # varNames[d2]
  /\ DOMAIN vars = LocalBound
  /\ \A d \in DOMAIN varNames : vars[varNames[d]] = d
  /\ LocalBound \cap (GlobalBound \cup stateNames) = {}
  /\ LocalBound \cap PyReservedNames = {}

\* a local x next to a global x, and a local len
C1_Witness ==
  /\ "x" \in GlobalBound
  /\ "x_a" \in LocalBound
  /\ "len_a" \in LocalBound

\* ---- bind and popScope ----
\* How many candidates of iterIdWithPostfixes the claims look at: the one
\* without postfix, the 36 postfixes of one character and the first of two.
MaxCandidates == 38

\* a name bind may take: not reserved, no live local, no global
Free(c) ==
  /\ c \notin PyReservedNames
  /\ c \notin DOMAIN vars
  /\ c \notin DOMAIN identifiers
  /\ c \notin stateNames

\* the step is a bind: registerNewVar has appended its assignment
BindStep == Len(body') = Len(body) + 1 /\ body'[Len(body')].op = "assign"
\* the step is a popScope
PopStep == Len(scopeStack') = Len(scopeStack) - 1

\* bind returned the first free candidate of some raw name
FirstFree(c) ==
  \E nm \in LocalRawNames : \E k \in 0..MaxCandidates :
    /\ c = iterIdWithPostfixes(nm, k)
    /\ Free(c)
    /\ \A j \in 0..(k - 1) : ~Free(iterIdWithPostfixes(nm, j))

\* the candidates in their order, and no candidate twice
CandidatesInOrder ==
  /\ iterIdWithPostfixes("x", 0) = "x"
  /\ iterIdWithPostfixes("x", 1) = "x_a"
  /\ iterIdWithPostfixes("x", 2) = "x_b"
  /\ iterIdWithPostfixes("x", 36) = "x_9"
  /\ iterIdWithPostfixes("x", 37) = "x_ba"
  /\ iterIdWithPostfixes(NoName, 0) = "__dummy_a"
  /\ iterIdWithPostfixes(NoName, 1) = "__dummy_b"
  /\ \A nm \in LocalRawNames : \A i, j \in 0..MaxCandidates :
       i < j => iterIdWithPostfixes(nm, i) # iterIdWithPostfixes(nm, j)

\* C13: bind returns the first name of rawName, rawName_a, ..., rawName_9,
\* rawName_ba, ... (__dummy_a, ... without a raw name) that is not reserved
\* and not bound to a live local or a global, and binds it; the candidates
\* come in that order and none comes twice.
C13_BindTakesFirstFreeCandidate ==
  [][ /\ BindStep =>
           /\ FirstFree(body'[Len(body')].name)
           /\ vars' = (body'[Len(body')].name :> nextDecl) @@ vars
      /\ (body = <<>> /\ scopeStack = <<>>) => CandidatesInOrder ]_allVars

\* a local x next to the globals x and x_a, and a local len: candidates have
\* been skipped for both reasons
C13_Witness ==
  /\ {"x", "x_a"} \subseteq stateNames
  /\ \E i \in DOMAIN body : body[i] = [op |-> "assign", name |-> "x_b"]
  /\ \E i \in DOMAIN body : body[i] = [op |-> "assign", name |-> "len_a"]

\* C14: popScope appends exactly one delete for each name of the scope it
\* leaves and nothing else, leaves the bindings of the enclosing scopes as
\* they are, and unbinds the names of the scope: a bind of the same raw name
\* that follows gets the name without postfix again.
C14_PopScopeDeletesItsBindings ==
  [][ PopStep =>
        LET scope == scopeStack[Len(scopeStack)]
            new == (Len(body) + 1)..Len(body')
        IN /\ Len(body') = Len(body) + Cardinality(scope)
           /\ SubSeq(body', 1, Len(body)) = body
           /\ \A i \in new : body'[i].op = "delete" /\ body'[i].name \in scope
           /\ \A n \in scope : Cardinality({ i \in new : body'[i].name = n }) = 1
           /\ scopeStack' = SubSeq(scopeStack, 1, Len(scopeStack) - 1)
           /\ DOMAIN vars' = DOMAIN vars \ scope
           /\ \A n \in DOMAIN vars' : vars'[n] = vars[n] /\ varNames'[vars[n]] = n
           /\ DOMAIN varNames' = { vars[n] : n \in DOMAIN vars' }
           /\ \A nm \in LocalRawNames \cap scope :
                iterIdWithPostfixes(nm, registerNewVar_index(vars', identifiers', nm, 0)) = nm
    ]_allVars

\* g was bound in a block, the block was left, and g was bound again in a
\* sibling block under the same name
C14_Witness ==
  /\ Len(body) = 3
  /\ body[1] = [op |-> "assign", name |-> "g"]
  /\ body[2] = [op |-> "delete", name |-> "g"]
  /\ body[3] = [op |-> "assign", name |-> "g"]

\* C26: after any sequence of registerNewVar, pushScope and popScope, vars
\* (name -> declaration) and varNames (declaration -> name) are inverse to
\* each other, no name is in the sets of two block scopes of the stack, and
\* the names in these sets together are the bound local names.
C26_MapsInverseScopesPartition ==
  /\ \A n \in DOMAIN vars : vars[n] \in DOMAIN varNames /\ varNames[vars[n]] = n
  /\ \A d \in DOMAIN varNames : varNames[d] \in DOMAIN vars /\ vars[varNames[d]] = d
  /\ \A i, j \in DOMAIN scopeStack : i # j => scopeStack[i] \cap scopeStack[j] = {}
  /\ UNION { scopeStack[i] : i \in DOMAIN scopeStack } = DOMAIN vars

\* a block with a local was left, and the local of the enclosing block is
\* still bound
C26_Witness ==
  /\ Len(scopeStack) = 1
  /\ scopeStack[1] # {}
  /\ \E i \in DOMAIN body : body[i].op = "delete" /\ body[i].name \notin DOMAIN vars

\* the names compiled code uses as free references to the runtime: the keys
\* "ctypes", "helpers" and "g" of Interpreter.globalsDict that the emitted
\* nodes name (getAstNodeAttrib("ctypes" / "helpers" / "g", ...))
RuntimeNames == {"ctypes", "helpers", "g"}

\* C27: no local variable or parameter is bound to a host name that compiled
\* code uses as a free reference to the runtime ("ctypes", "helpers", "g"),
\* so that g.<name> always is the global namespace.
C27_LocalsNeverRuntimeNames ==
  LocalBound \cap RuntimeNames = {}

(***************************************************************************)
(* PART 2b.  The translation of one function                               *)
(* (cparser/interpreter.py: Interpreter._translateFuncToPyAst over a        *)
(* FuncEnv and its FuncCodeblockScope).                                    *)
(***************************************************************************)

\* ---- bounds ----
\* parameters of the function that is translated
MaxFuncArgs == 2
\* items of the contentlist of its body
MaxItems == 2

\* the C names of the parameters
ArgNames == {"x", "len"}
ArgDecls == UNION { [1..n -> ArgNames] : n \in 0..MaxFuncArgs }
\* the items of a body: a CVarDecl (ok: the translation of its initializer
\* does not raise), a CStatement (ok: astAndTypeForCStatement does not
\* raise), a CWhileStatement (as are for, do, if and return: PyAstNoOp), and
\* an item of no known class
BodyItem(k, nm, ok) == [k |-> k, name |-> nm, ok |-> ok]
BodyItems ==
  { BodyItem("var", "x", TRUE), BodyItem("var", "g", TRUE), BodyItem("var", "x", FALSE),
    BodyItem("stmt", NoName, TRUE), BodyItem("stmt", NoName, FALSE),
    BodyItem("while", NoName, TRUE), BodyItem("other", NoName, FALSE) }
Contentlists == UNION { [1..n -> BodyItems] : n \in 0..MaxItems }

\* the function that is translated
TheFunc == funcs["f"]

\* where _translateFuncToPyAst stands; args is base.astNode.args.args
At(p, i, args) == [op |-> "translate", pc |-> p, i |-> i, args |-> args]
\* the loop over func.body.contentlist from item j on, then popScope
AtItem(j, args) ==
  IF j <= Len(TheFunc.contentlist) THEN At("body", j, args) ELSE At("pop", 0, args)
\* the loop over func.args from parameter i on
AtArg(i, args) ==
  IF i <= Len(TheFunc.args) THEN At("args", i, args) ELSE AtItem(1, args)

\* the name FuncEnv._registerNewVar returns
registerNewVar_name(nm) ==
  iterIdWithPostfixes(nm, registerNewVar_index(vars, identifiers, nm, 0))

\* FuncCodeblockScope.registerNewVar on the innermost scope; with ok = FALSE
\* the translation of the initializer raises, after the name was bound
registerNewVar(nm, value, ok) ==
  LET k == registerNewVar_index(vars, identifiers, nm, 0)
      c == iterIdWithPostfixes(nm, k)
      ids == lookups(identifiers, nm, k, TRUE)
  IN /\ vars' = (c :> nextDecl) @@ vars
     /\ varNames' = (nextDecl :> c) @@ varNames
     /\ scopeStack' = [scopeStack EXCEPT ![Len(scopeStack)] = @ \cup {c}]
     /\ body' = IF ok THEN Append(body, [op |-> "assign", name |-> c, value |-> value])
                ELSE body
     /\ identifiers' = ids
     /\ gnames' = gnames \cup (DOMAIN ids \ DOMAIN identifiers)
     /\ nextDecl' = nextDecl + 1

\* FuncCodeblockScope.finishMe: the body after self.funcEnv.astNode.body.extend(astCmds)
finishMe_first(b, scope) ==
  [i \in 1..Len(SetToSeq(scope)) |-> [op |-> "delete", name |-> SetToSeq(scope)[i], value |-> ""]] \o b
finishMe(b, scope) ==
  b \o [i \in 1..Len(SetToSeq(scope)) |-> [op |-> "delete", name |-> SetToSeq(scope)[i], value |-> ""]]

\* the statement appended for a body item that is no declaration
statementFor(item) ==
  [op |-> IF item.k = "stmt" THEN "expr" ELSE "noop", name |-> NoName, value |-> ""]

TranslateInit ==
  /\ stateNames \in SUBSET {"x"}
  /\ identifiers = <<>>
  /\ gnames = {}
  /\ vars = <<>>
  /\ varNames = <<>>
  /\ scopeStack = <<>>
  /\ body = <<>>
  /\ nextDecl = 1
  /\ nExterns = 0
  /\ funcs \in [{"f"} -> [args : ArgDecls, contentlist : Contentlists]]
  /\ func_cache = <<>> /\ gdict = <<>> /\ ntrans = <<>> /\ nextFunc = 1
  /\ lastRun = At("start", 0, <<>>)

\* base = FuncEnv(globalScope=self.globalScope); base.pushScope()
TranslateStart ==
  /\ lastRun.op = "translate" /\ lastRun.pc = "start"
  /\ scopeStack' = Append(scopeStack, {})
  /\ lastRun' = AtArg(1, <<>>)
  /\ UNCHANGED <<stateNames, identifiers, gnames, vars, varNames, body, nextDecl, nExterns>>
  /\ UNCHANGED <<funcs, func_cache, gdict, ntrans, nextFunc>>
  /\ UNCHANGED <<layoutVars, helperVars>>

\* one round of "for arg in func.args"
TranslateArg ==
  /\ lastRun.op = "translate" /\ lastRun.pc = "args"
  /\ registerNewVar(TheFunc.args[lastRun.i], "param", TRUE)
  /\ lastRun' = AtArg(lastRun.i + 1,
                      Append(lastRun.args, registerNewVar_name(TheFunc.args[lastRun.i])))
  /\ UNCHANGED <<stateNames, nExterns>>
  /\ UNCHANGED <<funcs, func_cache, gdict, ntrans, nextFunc>>
  /\ UNCHANGED <<layoutVars, helperVars>>

\* one round of "for c in func.body.contentlist", c a CVarDecl
TranslateVarDecl ==
  /\ lastRun.op = "translate" /\ lastRun.pc = "body"
  /\ TheFunc.contentlist[lastRun.i].k = "var"
  /\ registerNewVar(TheFunc.contentlist[lastRun.i].name, "init", TheFunc.contentlist[lastRun.i].ok)
  /\ lastRun' = IF TheFunc.contentlist[lastRun.i].ok THEN AtItem(lastRun.i + 1, lastRun.args)
                ELSE At("raised", lastRun.i, lastRun.args)
  /\ UNCHANGED <<stateNames, nExterns>>
  /\ UNCHANGED <<funcs, func_cache, gdict, ntrans, nextFunc>>
  /\ UNCHANGED <<layoutVars, helperVars>>

\* one round of "for c in func.body.contentlist", c no CVarDecl
TranslateStatement ==
  /\ lastRun.op = "translate" /\ lastRun.pc = "body"
  /\ TheFunc.contentlist[lastRun.i].k # "var"
  /\ body' = IF TheFunc.contentlist[lastRun.i].ok
             THEN Append(body, statementFor(TheFunc.contentlist[lastRun.i])) ELSE body
  /\ lastRun' = IF TheFunc.contentlist[lastRun.i].ok THEN AtItem(lastRun.i + 1, lastRun.args)
                ELSE At("raised", lastRun.i, lastRun.args)
  /\ UNCHANGED <<stateNames, identifiers, gnames, vars, varNames, scopeStack, nextDecl, nExterns>>
  /\ UNCHANGED <<funcs, func_cache, gdict, ntrans, nextFunc>>
  /\ UNCHANGED <<layoutVars, helperVars>>

\* base.popScope(); return base
TranslatePop ==
  /\ lastRun.op = "translate" /\ lastRun.pc = "pop"
  /\ body' = finishMe(body, scopeStack[Len(scopeStack)])
  /\ varNames' = Remove(varNames, { vars[n] : n \in scopeStack[Len(scopeStack)] })
  /\ vars' = Remove(vars, scopeStack[Len(scopeStack)])
  /\ scopeStack' = SubSeq(scopeStack, 1, Len(scopeStack) - 1)
  /\ lastRun' = At("returned", 0, lastRun.args)
  /\ UNCHANGED <<stateNames, identifiers, gnames, nextDecl, nExterns>>
  /\ UNCHANGED <<funcs, func_cache, gdict, ntrans, nextFunc>>
  /\ UNCHANGED <<layoutVars, helperVars>>

TranslateNext ==
  \/ TranslateStart
  \/ TranslateArg
  \/ TranslateVarDecl
  \/ TranslateStatement
  \/ TranslatePop

InitTranslate == TranslateInit /\ LayoutIdle /\ HelperIdle

SpecTranslate == InitTranslate /\ [][TranslateNext]_allVars

\* ---- the claims about the translation of a function ----
\* the statement the translation emits for item c of the body
EmittedFor(st, c) ==
  IF c.k = "var" THEN st.op = "assign" /\ st.value = "init" ELSE st = statementFor(c)

\* the places of the body that hold a statement of kind op
Places(op) == { i \in DOMAIN body : body[i].op = op }

\* C21: the body _translateFuncToPyAst produces holds the coercion
\* assignments of the parameters first, one for each parameter and in their
\* order, then one statement for each item of the C body in source order,
\* then the deletes of the top-level scope, one for each local name; at no
\* time is a delete followed by another statement; and when the translation
\* returns, no local is bound and the scope stack is empty.
C21_BodyInTranslationOrder ==
  lastRun.op = "translate" =>
    /\ \A i, j \in DOMAIN body : i < j /\ body[i].op = "delete" => body[j].op = "delete"
    /\ lastRun.pc = "returned" =>
         LET na == Len(TheFunc.args)
             ni == Len(TheFunc.contentlist)
         IN /\ Len(lastRun.args) = na
            /\ Len(body) >= na + ni
            /\ \A i \in 1..na :
                 body[i] = [op |-> "assign", name |-> lastRun.args[i], value |-> "param"]
            /\ \A j \in 1..ni : EmittedFor(body[na + j], TheFunc.contentlist[j])
            /\ \A i \in (na + ni + 1)..Len(body) : body[i].op = "delete"
            /\ \A i \in Places("assign") :
                 Cardinality({ j \in Places("delete") : body[j].name = body[i].name }) = 1
            /\ Cardinality(Places("delete")) = Cardinality(Places("assign"))
            /\ vars = <<>> /\ varNames = <<>> /\ scopeStack = <<>>

\* f(x, len) { int x; <statement>; } next to a global x has been translated
C21_Witness ==
  /\ lastRun.op = "translate" /\ lastRun.pc = "returned"
  /\ lastRun.args = <<"x_a", "len_a">>
  /\ "x" \in stateNames
  /\ Len(body) = 7
  /\ body[3] = [op |-> "assign", name |-> "x_b", value |-> "init"]
  /\ body[4].op = "expr"
  /\ body[5].op = "delete"

(***************************************************************************)
(* PART 3.  The function compiler and its cache (cparser/interpreter.py:   *)
(* GlobalsWrapper, Interpreter).                                           *)
(***************************************************************************)

\* ---- bounds ----
\* host arguments of one runFunc call
MaxArgs == 2
\* parameters of a C function
MaxParams == 1
\* runs of _translateFuncToPy for one name
MaxTries == 2

\* the functions of the parsed state, a global variable, and a name the
\* parsed state does not hold
FuncNames == {"f", "h"}
GlobalVarNames == {"v"}
UnknownNames == {"nosuch"}
\* the types of the parameters: an integer type or a pointer to one
ParamTypes == {"int", "ptr"}
ParamLists == UNION { [1..n -> ParamTypes] : n \in 0..MaxParams }
\* host values handed to runFunc
ArgValues == {"int", "none"}
ArgLists == UNION { [1..n -> ArgValues] : n \in 0..MaxArgs }

NoValue == [k |-> "none", id |-> 0]
FuncValue(i) == [k |-> "func", id |-> i]
VarValue == [k |-> "var", id |-> 0]

\* the state of an Interpreter
interp == [func_cache |-> func_cache, gdict |-> gdict, ntrans |-> ntrans, nextFunc |-> nextFunc]

\* Interpreter._translateFuncToPy; ok: _translateFuncToPyAst, _compile and
\* exec run to the end
translateFuncToPy(st, funcname, ok) ==
  IF funcname \notin DOMAIN funcs THEN [st |-> st, ret |-> NoValue, err |-> "KeyError", translated |-> FALSE]
  ELSE IF ~ok
  THEN [st |-> [st EXCEPT !.ntrans[funcname].tries = @ + 1],
        ret |-> NoValue, err |-> "TranslateError", translated |-> TRUE]
  ELSE [st |-> [st EXCEPT !.ntrans[funcname].tries = @ + 1,
                          !.ntrans[funcname].done = @ + 1,
                          !.nextFunc = @ + 1],
        ret |-> FuncValue(st.nextFunc), err |-> "", translated |-> TRUE]

\* Interpreter.getFunc, the else branch after _translateFuncToPy returned r
getFunc_store_always(r, funcname) ==
  [r EXCEPT !.st.func_cache = (funcname :> r.ret) @@ @]
getFunc_store(r, funcname) ==
  IF r.err # "" THEN r
  ELSE [r EXCEPT !.st.func_cache = (funcname :> r.ret) @@ @]

\* Interpreter.getFunc
getFunc_uncached(st, funcname, ok) ==
  getFunc_store(translateFuncToPy(st, funcname, ok), funcname)
getFunc(st, funcname, ok) ==
  IF funcname \in DOMAIN st.func_cache
  THEN [st |-> st, ret |-> st.func_cache[funcname], err |-> "", translated |-> FALSE]
  ELSE getFunc_store(translateFuncToPy(st, funcname, ok), funcname)

\* GlobalsWrapper.__getattr__, the tail: self.__dict__[name] = v
getattr_store(r, name) ==
  IF r.err # "" THEN r
  ELSE [r EXCEPT !.st.gdict = (name :> r.ret) @@ @]

\* reading g.<name>: the instance's __dict__ first, then GlobalsWrapper.__getattr__
getattr(st, name, ok) ==
  IF name \in DOMAIN st.gdict
  THEN [st |-> st, ret |-> st.gdict[name], err |-> "", translated |-> FALSE]
  ELSE IF name \in GlobalVarNames
  THEN getattr_store([st |-> st, ret |-> VarValue, err |-> "", translated |-> FALSE], name)
  ELSE IF name \in DOMAIN funcs
  THEN getattr_store(getFunc(st, name, ok), name)
  ELSE [st |-> st, ret |-> NoValue, err |-> "KeyError", translated |-> FALSE]

\* Interpreter._castArgToCType does not fail
castable(arg, typ) ==
  IF typ = "ptr" THEN arg = "none" ELSE arg = "int"

\* map(lambda (arg,typ): self._castArgToCType(arg,typ), zip(args, f.C_argTypes)):
\* how many arguments are coerced
RECURSIVE castArgs(_, _, _)
castArgs(args, types, i) ==
  IF i > Len(args) \/ i > Len(types) THEN i - 1
  ELSE IF ~castable(args[i], types[i]) THEN i - 1
  ELSE castArgs(args, types, i + 1)

\* Interpreter.runFunc after getFunc returned r: what the call did
runFunc_no_arity_check(r, funcname, args) ==
  IF r.err # "" THEN [err |-> r.err, coerced |-> 0, executed |-> FALSE]
  ELSE LET types == funcs[funcname].argTypes
           n == castArgs(args, types, 1)
       IN IF n < Len(args) /\ n < Len(types)
          THEN [err |-> "AssertionError", coerced |-> n, executed |-> FALSE]
          ELSE IF Len(args) # Len(types)
          THEN [err |-> "TypeError", coerced |-> n, executed |-> FALSE]
          ELSE [err |-> "", coerced |-> n, executed |-> TRUE]
runFunc(r, funcname, args) ==
  IF r.err # "" THEN [err |-> r.err, coerced |-> 0, executed |-> FALSE]
  ELSE LET types == funcs[funcname].argTypes
           n == castArgs(args, types, 1)
       IN IF Len(args) # Len(types)
          THEN [err |-> "AssertionError", coerced |-> 0, executed |-> FALSE]
          ELSE IF n < Len(args)
          THEN [err |-> "AssertionError", coerced |-> n, executed |-> FALSE]
          ELSE [err |-> "", coerced |-> n, executed |-> TRUE]

FuncInit ==
  /\ funcs \in [FuncNames -> [argTypes : ParamLists]]
  /\ funcs["h"].argTypes = <<>>          \* void h(void)
  /\ func_cache = <<>>
  /\ gdict = <<>>
  /\ ntrans = [n \in FuncNames |-> [tries |-> 0, done |-> 0]]
  /\ nextFunc = 1
  /\ lastRun = [op |-> "none"]

\* no more than MaxTries runs of the translator for one name
MayLookUp(name) ==
  name \in DOMAIN funcs /\ name \notin DOMAIN func_cache => ntrans[name].tries < MaxTries

Cached(name) == IF name \in DOMAIN func_cache THEN func_cache[name] ELSE NoValue

SetInterp(st) ==
  /\ func_cache' = st.func_cache
  /\ gdict' = st.gdict
  /\ ntrans' = st.ntrans
  /\ nextFunc' = st.nextFunc

\* Interpreter.getFunc(funcname), called from outside
GetFunc(name, ok) ==
  /\ MayLookUp(name)
  /\ LET r == getFunc(interp, name, ok)
     IN /\ SetInterp(r.st)
        /\ lastRun' = [op |-> "getFunc", name |-> name, cached |-> Cached(name), ret |-> r.ret,
                       err |-> r.err, translated |-> r.translated,
                       nargs |-> 0, coerced |-> 0, executed |-> FALSE]
  /\ UNCHANGED funcs
  /\ UNCHANGED <<layoutVars, scopeVars, helperVars>>

\* Interpreter.dumpFunc(funcname)
DumpFunc(name, ok) ==
  /\ MayLookUp(name)
  /\ LET r == getFunc(interp, name, ok)
     IN /\ SetInterp(r.st)
        /\ lastRun' = [op |-> "dumpFunc", name |-> name, cached |-> Cached(name), ret |-> r.ret,
                       err |-> r.err, translated |-> r.translated,
                       nargs |-> 0, coerced |-> 0, executed |-> FALSE]
  /\ UNCHANGED funcs
  /\ UNCHANGED <<layoutVars, scopeVars, helperVars>>

\* g.<name>, read by compiled code
GetAttr(name, ok) ==
  /\ MayLookUp(name)
  /\ LET r == getattr(interp, name, ok)
     IN /\ SetInterp(r.st)
        /\ lastRun' = [op |-> "getattr", name |-> name, cached |-> Cached(name), ret |-> r.ret,
                       err |-> r.err, translated |-> r.translated,
                       nargs |-> 0, coerced |-> 0, executed |-> FALSE]
  /\ UNCHANGED funcs
  /\ UNCHANGED <<layoutVars, scopeVars, helperVars>>

\* Interpreter.runFunc(funcname, *args)
RunFunc(name, args, ok) ==
  /\ MayLookUp(name)
  /\ LET r == getFunc(interp, name, ok)
         c == runFunc(r, name, args)
     IN /\ SetInterp(r.st)
        /\ lastRun' = [op |-> "runFunc", name |-> name, cached |-> Cached(name), ret |-> r.ret,
                       err |-> c.err, translated |-> r.translated,
                       nargs |-> Len(args), coerced |-> c.coerced, executed |-> c.executed]
  /\ UNCHANGED funcs
  /\ UNCHANGED <<layoutVars, scopeVars, helperVars>>

\* the translation of a function not in the cache runs to the end or raises
Outcomes(name) ==
  IF name \in DOMAIN funcs /\ name \notin DOMAIN func_cache THEN BOOLEAN ELSE {TRUE}

FuncNext ==
  \/ \E name \in FuncNames \cup UnknownNames : \E ok \in Outcomes(name) : GetFunc(name, ok)
  \/ \E name \in FuncNames : \E ok \in Outcomes(name) : DumpFunc(name, ok)
  \/ \E name \in FuncNames \cup GlobalVarNames \cup UnknownNames : \E ok \in Outcomes(name) : GetAttr(name, ok)
  \/ \E name \in FuncNames, args \in ArgLists : \E ok \in Outcomes(name) : RunFunc(name, args, ok)

InitFunc == FuncInit /\ LayoutIdle /\ ScopeIdle /\ HelperIdle

SpecFunc == InitFunc /\ [][FuncNext]_allVars

(***************************************************************************)
(* Claims about the function compiler and its cache.                       *)
(***************************************************************************)

\* C5 as claimed: the body of a function of a given name is translated at
\* most once in a run.
C5_TranslatedAtMostOnce ==
  \A n \in DOMAIN ntrans : ntrans[n].tries <= 1

\* C5 amended: the translation of a function of a given name runs to the end
\* at most once in a run; from then on the name is in the cache, and getFunc,
\* runFunc, dumpFunc and g.<name> return the identical cached callable without
\* translating again.  (A translation that raises adds nothing to the cache,
\* and the next lookup translates again.)
C5_TranslatedToTheEndAtMostOnce ==
  /\ \A n \in DOMAIN ntrans :
       /\ ntrans[n].done <= 1
       /\ n \in DOMAIN func_cache <=> ntrans[n].done = 1
       /\ n \in DOMAIN gdict => n \in DOMAIN func_cache /\ gdict[n] = func_cache[n]
  /\ \A n1, n2 \in DOMAIN func_cache : n1 # n2 => func_cache[n1] # func_cache[n2]
  /\ lastRun.op # "none" /\ lastRun.cached # NoValue =>
       /\ ~lastRun.translated
       /\ lastRun.ret = lastRun.cached
       /\ func_cache[lastRun.name] = lastRun.cached

\* a lookup that found the callable in the cache, after a translation that raised
C5_Witness ==
  /\ lastRun.op = "getattr"
  /\ lastRun.cached # NoValue
  /\ ntrans[lastRun.name].tries = 2
  /\ ntrans[lastRun.name].done = 1

\* C6: runFunc with a number of arguments that is not the number of declared
\* parameters fails, with no argument coerced and the body not executed.
C6_ArityMismatchFails ==
  lastRun.op = "runFunc" /\ lastRun.name \in DOMAIN funcs
    /\ lastRun.nargs # Len(funcs[lastRun.name].argTypes)
  => lastRun.err # "" /\ lastRun.coerced = 0 /\ ~lastRun.executed

\* one argument more than the compiled function has parameters
C6_Witness ==
  /\ lastRun.op = "runFunc"
  /\ lastRun.name \in DOMAIN func_cache
  /\ lastRun.nargs = Len(funcs[lastRun.name].argTypes) + 1
  /\ funcs[lastRun.name].argTypes # <<>>
  /\ lastRun.err = "AssertionError"

\* the step ran the translator for n, and it raised
TranslationRaised(n) ==
  ntrans'[n].tries = ntrans[n].tries + 1 /\ ntrans'[n].done = ntrans[n].done

\* C29: a step in which translating or compiling a function raises leaves
\* the cache as it is, so that the next lookup of the name runs the
\* translator again; and an entry of the cache is never replaced or removed.
C29_CacheOnlyGrowsOnSuccess ==
  [][ /\ \A n \in DOMAIN func_cache :
           n \in DOMAIN func_cache' /\ func_cache'[n] = func_cache[n]
      /\ \A n \in DOMAIN ntrans : TranslationRaised(n) => func_cache' = func_cache
      /\ \A n \in DOMAIN funcs :
           (lastRun'.name = n /\ n \notin DOMAIN func_cache)
             => ntrans'[n].tries = ntrans[n].tries + 1 ]_allVars

\* f is in the cache after a translation that raised and one that did not,
\* and the translation of h has raised since
C29_Witness ==
  /\ lastRun.op # "none" /\ lastRun.name = "h" /\ lastRun.translated
  /\ "f" \in DOMAIN func_cache /\ "h" \notin DOMAIN func_cache
  /\ ntrans["f"].tries = 2 /\ ntrans["f"].done = 1
  /\ ntrans["h"].tries >= 1

(***************************************************************************)
(* PART 3b.  The coercion of a host integer into an integer parameter:     *)
(* Interpreter._castArgToCType, then the assignment registerNewVar emits   *)
(* for a CFuncArgDecl, "x = ctypes.<type>(x.value)".                        *)
(***************************************************************************)

\* Largest absolute value of the host integers passed to runFunc.
MaxHostInt == 130

HostInts == (0 - MaxHostInt)..MaxHostInt

\* State.StdIntTypes: the declared types of the parameter, name -> [bits, signed]
StdIntTypes ==
  ("int8_t" :> [bits |-> 8, signed |-> TRUE]) @@ ("uint8_t" :> [bits |-> 8, signed |-> FALSE]) @@
  ("int16_t" :> [bits |-> 16, signed |-> TRUE]) @@ ("int32_t" :> [bits |-> 32, signed |-> TRUE])

Pow2(n) == IF n = 8 THEN 256 ELSE 65536

\* the value a ctypes integer of the type holds after it is constructed from
\* v: v modulo 2^bits, read as signed or unsigned (every host integer of the
\* model lies in the range of a signed 32 bit type)
CIntValue(t, v) ==
  IF StdIntTypes[t].bits = 32 THEN v
  ELSE LET m == v % Pow2(StdIntTypes[t].bits)
       IN IF StdIntTypes[t].signed /\ m >= Pow2(StdIntTypes[t].bits) \div 2
          THEN m - Pow2(StdIntTypes[t].bits) ELSE m

Representable(t, v) ==
  IF StdIntTypes[t].bits = 32 THEN TRUE
  ELSE IF StdIntTypes[t].signed
  THEN (0 - (Pow2(StdIntTypes[t].bits) \div 2)) <= v /\ v < Pow2(StdIntTypes[t].bits) \div 2
  ELSE 0 <= v /\ v < Pow2(StdIntTypes[t].bits)

\* minCIntTypeForNums(arg): the smallest type of at least 32 bits that holds
\* arg, unsigned if arg >= 0 (every host integer of the model is below 2^32)
minCIntTypeForNums(arg) == IF arg >= 0 THEN "uint32_t" ELSE "int32_t"

\* Interpreter._castArgToCType, an int for a parameter that is no pointer:
\* self._cStateWrapper.StdIntTypes[t](arg); the object holds arg
castArgToCType_int8(arg, typ) == [cls |-> "int8_t", value |-> CIntValue("int8_t", arg)]
castArgToCType(arg, typ) == [cls |-> minCIntTypeForNums(arg), value |-> arg]

\* getAstNode_valueFromObj of a non-pointer: obj.value
valueFromObj(obj) == obj.value

\* getAstNode_newTypeInstance(varDecl.type, Name(varName), varDecl.type) for a
\* non-pointer, executed at function entry: <type>(<varName>.value)
newTypeInstance(typ, obj) == [cls |-> typ, value |-> CIntValue(typ, valueFromObj(obj))]

\* runFunc of a function with one integer parameter of the type typ, called
\* with the host integer v: what the parameter holds after the function entry
Coerce(v, typ) ==
  /\ lastRun' = [op |-> "coerce", arg |-> v, typ |-> typ,
                 param |-> newTypeInstance(typ, castArgToCType(v, typ))]
  /\ UNCHANGED <<funcs, func_cache, gdict, ntrans, nextFunc>>
  /\ UNCHANGED <<layoutVars, scopeVars, helperVars>>

CoerceNext == \E v \in HostInts, typ \in DOMAIN StdIntTypes : Coerce(v, typ)

InitCoerce == FuncIdle /\ LayoutIdle /\ ScopeIdle /\ HelperIdle

SpecCoerce == InitCoerce /\ [][CoerceNext]_allVars

\* C12: the parameter of a declared integer type that was bound to the host
\* integer v holds v, whenever v is representable in the declared type.
C12_CoercionRoundTrip ==
  (lastRun.op = "coerce" /\ Representable(lastRun.typ, lastRun.arg)) =>
     /\ lastRun.param.cls = lastRun.typ
     /\ valueFromObj(lastRun.param) = lastRun.arg

\* 5 has been passed for an int32_t, and 128 (representable, but not in 8
\* signed bits) for a uint8_t
C12_Witness ==
  /\ lastRun.op = "coerce"
  /\ \/ lastRun.typ = "int32_t" /\ lastRun.arg = 5 /\ lastRun.param.value = 5
     \/ lastRun.typ = "uint8_t" /\ lastRun.arg = 128 /\ lastRun.param.value = 128

(***************************************************************************)
(* PART 4.  The runtime helpers of compiled code (cparser/interpreter.py:  *)
(* class Helpers, getAstNode_postfixInc, getAstNode_postfixDec).           *)
(***************************************************************************)

\* ---- bounds ----
\* ctypes objects alive in the run of the model
MaxCells == 2

\* The classes of the cells: two integer classes (ctypes.c_int8 and
\* ctypes.c_uint8 stand for the integer classes, which differ in width and
\* sign only), ctypes.POINTER(T) for a T of 1 or 4 bytes, and
\* ctypes.POINTER(None), which is ctypes.c_void_p.
IntKinds == {"c_int8", "c_uint8"}
SimpleKinds == IntKinds \cup {"c_void_p"}
PointerKinds == {"POINTER", "c_void_p"}
CellClasses ==
  { [kind |-> k, size |-> 0] : k \in SimpleKinds } \cup { [kind |-> "POINTER", size |-> n] : n \in {1, 4} }

\* the value an integer cell of class k keeps when v is stored in it
Wrap(k, v) ==
  IF k = "c_int8" THEN ((v + 128) % 256) - 128
  ELSE IF k = "c_uint8" THEN v % 256
  ELSE v

\* the values the model stores: the ends of the ranges and two inner values
StoredValues == {-128, 0, 5, 127, 255}
Addresses == {0, 8}

\* isinstance(a, _ctypes._SimpleCData)
isSimpleCData(c) == c.kind \in SimpleKinds

\* Helpers.copy: c = a.__class__(); pointer(c)[0] = a
copy_alias(cs, a) == [cells |-> cs, ret |-> a, err |-> ""]
copy(cs, a) ==
  IF isSimpleCData(cs[a])
  THEN [cells |-> Append(cs, cs[a]), ret |-> Len(cs) + 1, err |-> ""]
  ELSE [cells |-> cs, ret |-> 0, err |-> "AssertionError"]

\* a.value += d (d is 1 or -1)
add_value(c, d) == [c EXCEPT !.value = Wrap(c.kind, @ + d)]

\* Helpers.postfixInc (d = 1) and Helpers.postfixDec (d = -1), after copy returned r
postfixInc(r, a, d) ==
  IF r.err # "" THEN r
  ELSE [r EXCEPT !.cells[a] = add_value(@, d)]

\* Helpers.postfixIncPtr (d = 1) and Helpers.postfixDecPtr (d = -1), after
\* copy returned r.  What copy accepts is a _SimpleCData, whose _type_ is a
\* one-character type code: ctypes.sizeof(a._type_) raises TypeError, and the
\* assignment to aPtr.contents.value is not reached.
postfixIncPtr(r, a, d) ==
  IF r.err # "" THEN r
  ELSE [r EXCEPT !.err = "TypeError"]

\* getAstNode_postfixInc / getAstNode_postfixDec: isPointerType(aType)
isPointerCell(c) == c.kind \in PointerKinds

\* OpBin: the binary operators of C -> the class of the Python ast operator
OpBin ==
  ("+" :> "Add") @@ ("-" :> "Sub") @@ ("*" :> "Mult") @@ ("/" :> "Div") @@ ("%" :> "Mod") @@
  ("<<" :> "LShift") @@ (">>" :> "RShift") @@ ("|" :> "BitOr") @@ ("^" :> "BitXor") @@
  ("&" :> "BitAnd")
\* OpAugAssign: the keys are the keys of OpBin with "=" appended
OpAugAssignKeys == { o \o "=" : o \in DOMAIN OpBin }
OpAugAssign(k) == OpBin[CHOOSE o \in DOMAIN OpBin : o \o "=" = k]

\* a bitwise operator on integers of -512 .. 511, bit by bit on n bits of
\* the two's complement
RECURSIVE BitwiseOn(_, _, _, _)
BitwiseOn(cls, a, b, n) ==
  IF n = 0 THEN 0
  ELSE (IF cls = "BitOr" THEN (IF (a % 2) + (b % 2) > 0 THEN 1 ELSE 0)
        ELSE IF cls = "BitXor" THEN ((a % 2) + (b % 2)) % 2
        ELSE (a % 2) * (b % 2))
       + 2 * BitwiseOn(cls, a \div 2, b \div 2, n - 1)
Bitwise(cls, a, b) ==
  IF BitwiseOn(cls, a % 1024, b % 1024, 10) >= 512
  THEN BitwiseOn(cls, a % 1024, b % 1024, 10) - 1024
  ELSE BitwiseOn(cls, a % 1024, b % 1024, 10)

\* _astOpToFunc(op): lambda a, b: a <op> b, for b > 0 (Python 2 integers)
astOpToFunc(cls, a, b) ==
  IF cls = "Add" THEN a + b
  ELSE IF cls = "Sub" THEN a - b
  ELSE IF cls = "Mult" THEN a * b
  ELSE IF cls = "Div" THEN a \div b
  ELSE IF cls = "Mod" THEN a % b
  ELSE IF cls = "LShift" THEN a * (2 ^ b)
  ELSE IF cls = "RShift" THEN a \div (2 ^ b)
  ELSE Bitwise(cls, a, b)

\* OpBinFuncs: its keys are the ast operator classes, the values of OpBin
OpBinFuncs == { OpBin[o] : o \in DOMAIN OpBin }

\* getAstNode_augAssign: the helper that is called, and the operator it is
\* handed (ast.Str(op), op the content of the C operator token)
getAstNode_augAssign(aIsPointer, op) ==
  [helper |-> IF aIsPointer THEN "augAssignPtr" ELSE "augAssign", op |-> op]

\* Helpers.augAssign: a.value = OpBinFuncs[op](a.value, bValue); return a
\* Helpers.augAssignPtr: the same on the address the pointer holds
augAssign(cs, a, op, bValue) ==
  IF op \notin OpBinFuncs THEN [cells |-> cs, ret |-> 0, err |-> "KeyError"]
  ELSE [cells |-> [cs EXCEPT ![a].value = Wrap(cs[a].kind, astOpToFunc(op, @, bValue))],
        ret |-> a, err |-> ""]

HelperInit ==
  /\ cells = <<>>
  /\ lastOp = [op |-> "none"]
  /\ snap = <<>>

\* a variable is declared: getAstNode_newTypeInstance
NewCell(cls, v) ==
  /\ Len(cells) < MaxCells
  /\ cells' = Append(cells, [kind |-> cls.kind, size |-> cls.size, value |-> v])
  /\ lastOp' = [op |-> "new", operand |-> Len(cells) + 1, old |-> v, ret |-> Len(cells) + 1, err |-> ""]
  /\ UNCHANGED snap
  /\ UNCHANGED <<layoutVars, scopeVars, funcVars>>

\* the statement a++ (d = 1) or a-- (d = -1) of compiled code
Postfix(a, d) ==
  /\ isSimpleCData(cells[a]) => Len(cells) < MaxCells
  /\ LET r == IF isPointerCell(cells[a])
              THEN postfixIncPtr(copy(cells, a), a, d)
              ELSE postfixInc(copy(cells, a), a, d)
     IN /\ cells' = r.cells
        /\ lastOp' = [op |-> IF d = 1 THEN "postfixInc" ELSE "postfixDec",
                      operand |-> a, old |-> cells[a].value, ret |-> IF r.err = "" THEN r.ret ELSE 0,
                      err |-> r.err]
        /\ snap' = IF r.err = "" /\ r.ret # a
                   THEN (r.ret :> cells[a].value) @@ [c \in DOMAIN snap \ {a} |-> snap[c]]
                   ELSE snap
  /\ UNCHANGED <<layoutVars, scopeVars, funcVars>>

\* Helpers.assign(a, bValue): a.value = bValue
Assign(a, v) ==
  /\ cells[a].kind \in IntKinds
  /\ cells' = [cells EXCEPT ![a].value = Wrap(cells[a].kind, v)]
  /\ lastOp' = [op |-> "assign", operand |-> a, old |-> cells[a].value, ret |-> a, err |-> ""]
  /\ snap' = [c \in DOMAIN snap \ {a} |-> snap[c]]
  /\ UNCHANGED <<layoutVars, scopeVars, funcVars>>

\* the statement a op= b of compiled code, op one of the compound assignment
\* operators: helpers.<helper>(a, "<op>", b.value)
AugAssign(a, op, v) ==
  /\ LET call == getAstNode_augAssign(isPointerCell(cells[a]), op)
         r == augAssign(cells, a, call.op, v)
     IN /\ cells' = r.cells
        /\ lastOp' = [op |-> call.helper, operand |-> a, old |-> cells[a].value, ret |-> r.ret,
                      err |-> r.err, opstr |-> op, arg |-> v]
        /\ snap' = IF r.err = "" THEN [c \in DOMAIN snap \ {a} |-> snap[c]] ELSE snap
  /\ UNCHANGED <<layoutVars, scopeVars, funcVars>>

\* the right-hand values of the compound assignments
AugValues == {1, 5}

HelperNext ==
  \/ \E cls \in CellClasses :
       \E v \in IF cls.kind \in IntKinds THEN { Wrap(cls.kind, x) : x \in StoredValues } ELSE Addresses :
         NewCell(cls, v)
  \/ \E a \in DOMAIN cells, d \in {1, -1} : Postfix(a, d)
  \/ \E a \in DOMAIN cells, v \in StoredValues : Assign(a, v)

InitHelper == HelperInit /\ LayoutIdle /\ ScopeIdle /\ FuncIdle

SpecHelper == InitHelper /\ [][HelperNext]_allVars

\* compiled code that declares variables and runs compound assignments
AugNext ==
  \/ \E cls \in CellClasses :
       \E v \in IF cls.kind \in IntKinds THEN { Wrap(cls.kind, x) : x \in StoredValues } ELSE Addresses :
         NewCell(cls, v)
  \/ \E a \in DOMAIN cells, op \in OpAugAssignKeys, v \in AugValues : AugAssign(a, op, v)

InitAug == HelperInit /\ LayoutIdle /\ ScopeIdle /\ FuncIdle

SpecAug == InitAug /\ [][AugNext]_allVars

(***************************************************************************)
(* Claims about the runtime helpers.                                       *)
(***************************************************************************)

PostfixOps == {"postfixInc", "postfixDec"}
Step(op) == IF op = "postfixInc" THEN 1 ELSE -1
\* the last statement was a postfix ++ or -- on a cell of one of these kinds
PostfixOn(kinds) == lastOp.op \in PostfixOps /\ cells[lastOp.operand].kind \in kinds

\* C7 as claimed: postfix ++ (--) on an integer cell holding v returns a
\* distinct cell holding v, which later writes to the operand do not change,
\* and leaves the operand holding v+1 (v-1).
C7_PostfixReturnsOldLeavesNext ==
  /\ PostfixOn(IntKinds) =>
       /\ lastOp.err = ""
       /\ lastOp.ret # lastOp.operand
       /\ cells[lastOp.ret].value = lastOp.old
       /\ cells[lastOp.operand].value = lastOp.old + Step(lastOp.op)
  /\ \A c \in DOMAIN snap : cells[c].value = snap[c]

\* C7 amended: postfix ++ (--) on an integer cell holding v returns a distinct
\* cell of the same class holding v, which later writes to the operand do not
\* change, and leaves the operand holding v+1 (v-1) reduced to the range of
\* the cell's class: one step beyond the end of the range the value wraps to
\* the other end.
C7_PostfixReturnsOldLeavesNextWrapped ==
  /\ PostfixOn(IntKinds) =>
       /\ lastOp.err = ""
       /\ lastOp.ret # lastOp.operand
       /\ cells[lastOp.ret].kind = cells[lastOp.operand].kind
       /\ cells[lastOp.ret].value = lastOp.old
       /\ cells[lastOp.operand].value = Wrap(cells[lastOp.operand].kind, lastOp.old + Step(lastOp.op))
  /\ \A c \in DOMAIN snap : cells[c].value = snap[c]

\* the cell returned by a++ when a held 5, after a was written again
C7_Witness ==
  /\ lastOp.op = "assign"
  /\ \E c \in DOMAIN snap : c # lastOp.operand /\ snap[c] = 5 /\ cells[lastOp.operand].value # 5
                           /\ cells[lastOp.operand].kind = cells[c].kind

\* C8: postfix ++ (--) on a pointer to elements of s bytes that holds address
\* A returns a pointer holding A and leaves the variable holding A+s (A-s).
C8_PostfixPtrReturnsOldLeavesNext ==
  PostfixOn({"POINTER"}) =>
    /\ lastOp.err = ""
    /\ lastOp.ret \in DOMAIN cells
    /\ lastOp.ret # lastOp.operand
    /\ cells[lastOp.ret].value = lastOp.old
    /\ cells[lastOp.operand].value = lastOp.old + Step(lastOp.op) * cells[lastOp.operand].size

\* C22: for each of the ten compound assignment operators, the helper call
\* emitted for "a op= b" (augAssign for a non-pointer, augAssignPtr for a
\* pointer, with the operator as argument) finds the function of the binary
\* operator, leaves the cell a holding (old value op b), and returns a.
C22_AugAssignLeavesOldOpRight ==
  lastOp.op \in {"augAssign", "augAssignPtr"} =>
    /\ lastOp.op = "augAssignPtr" <=> isPointerCell(cells[lastOp.operand])
    /\ lastOp.opstr \in OpAugAssignKeys
    /\ lastOp.err = ""
    /\ lastOp.ret = lastOp.operand
    /\ cells[lastOp.operand].value =
         Wrap(cells[lastOp.operand].kind,
              astOpToFunc(OpAugAssign(lastOp.opstr), lastOp.old, lastOp.arg))

====
